---- MODULE Spec2Model ----
(***************************************************************************)
(* Model of the spreadsheet formula engine (class FormulaEngine): the     *)
(* cell store sheetData, the reverse-edge map dependencies, the           *)
(* calculationOrder computed by the depth-first topological sort, and the *)
(* evaluation pass recalculate().                                         *)
(*                                                                         *)
(* A cell value (CellData.value) is a record [k, n, s]: k = "null" is JS  *)
(* null, k = "num" a number n, k = "err" an error string s.  A formula    *)
(* (CellData.formula) is a record [op, a, b, n, m] standing for the       *)
(* formula text written next to each constructor below.                   *)
(***************************************************************************)
EXTENDS Integers, Sequences, FiniteSets, TLC

VARIABLES sheetData, calculationOrder, dependencies,
          lastOp, ops, graphFresh, recovery, litEdit, lastCall,
          pc, passIdx, passId, tasks,
          call, result,
          db, response,
          activeUsers, spreadsheetRooms, socketRooms

vars == <<sheetData, calculationOrder, dependencies,
          lastOp, ops, graphFresh, recovery, litEdit, lastCall,
          pc, passIdx, passId, tasks,
          call, result,
          db, response,
          activeUsers, spreadsheetRooms, socketRooms>>

\* The position of the running engine call and the calls waiting for it.
passVars == <<pc, passIdx, passId, tasks>>

\* The argument and the result of a call of a pure function.
fnVars == <<call, result>>

\* The tables of the database and the outcome of the last procedure call.
routerVars == <<db, response>>

\* The maps of the collaboration server and the rooms of socket.io.
collabVars == <<activeUsers, spreadsheetRooms, socketRooms>>

serverVars == <<routerVars, collabVars>>

engineVars == <<sheetData, calculationOrder, dependencies>>

(***************************************************************************)
(* Bounds                                                                  *)
(***************************************************************************)
MaxOps == 3

(***************************************************************************)
(* Cell values                                                             *)
(***************************************************************************)
NullV == [k |-> "null", n |-> 0, s |-> ""]

Num(x) == [k |-> "num", n |-> x, s |-> ""]

Err(e) == [k |-> "err", n |-> 0, s |-> e]

StandardErrors == {"#DIV/0!", "#N/A", "#NAME?", "#NULL!", "#NUM!", "#REF!", "#VALUE!"}

\* formatError: a known code maps to itself, anything else to '#ERROR!'.
\* errorMap[error] without the fallback: undefined for a code not in the map.
formatErrorNoFallback(e) == IF e \in StandardErrors THEN e ELSE "undefined"

\* errorMap[error] || '#ERROR!'
formatError(e) == IF e \in StandardErrors THEN e ELSE "#ERROR!"

(***************************************************************************)
(* Addresses of the modelled grid: columns A..B, rows 1..3.               *)
(***************************************************************************)
Addr == {"A1", "A2", "A3", "B1"}

\* parseCellAddress on the grid's addresses: zero-based {col, row}.
parseCellAddress(a) ==
    CASE a = "A1" -> [col |-> 0, row |-> 0]
      [] a = "A2" -> [col |-> 0, row |-> 1]
      [] a = "A3" -> [col |-> 0, row |-> 2]
      [] a = "B1" -> [col |-> 1, row |-> 0]

\* coordToAddress(row, col): the address text of a zero-based coordinate;
\* a coordinate outside the modelled grid is an address no cell is stored at.
coordToAddress(row, col) ==
    IF \E a \in Addr : parseCellAddress(a) = [col |-> col, row |-> row]
    THEN CHOOSE a \in Addr : parseCellAddress(a) = [col |-> col, row |-> row]
    ELSE "??"

(***************************************************************************)
(* Formulas                                                                *)
(***************************************************************************)
NoFormula == [op |-> "none", a |-> "", b |-> "", n |-> 0, m |-> 0, eq |-> 0]

\* "5"
FNum(x) == [op |-> "num", a |-> "", b |-> "", n |-> x, m |-> 0, eq |-> 0]

\* "1/0"
FDiv(x, y) == [op |-> "div", a |-> "", b |-> "", n |-> x, m |-> y, eq |-> 0]

\* "A1"
FRef(c) == [op |-> "ref", a |-> c, b |-> "", n |-> 0, m |-> 0, eq |-> 0]

\* "A1+1"
FAdd(c, x) == [op |-> "add", a |-> c, b |-> "", n |-> x, m |-> 0, eq |-> 0]

\* "IFERROR(A1,0)"
FIfError(c, x) == [op |-> "iferror", a |-> c, b |-> "", n |-> x, m |-> 0, eq |-> 0]

\* "SUM(A1:A3)"
FSum(c, d) == [op |-> "sum", a |-> c, b |-> d, n |-> 0, m |-> 0, eq |-> 0]

\* "$A$1": the absolute form of a reference to c
FAbs(c) == [op |-> "abs", a |-> c, b |-> "", n |-> 0, m |-> 0, eq |-> 0]

\* "Sheet1!A1": the cross-sheet form of a reference to c
FSheet(c) == [op |-> "sheet", a |-> c, b |-> "", n |-> 0, m |-> 0, eq |-> 0]

\* "SUM(": a text the parser cannot read
FBad == [op |-> "bad", a |-> "", b |-> "", n |-> 0, m |-> 0, eq |-> 0]

\* "=" in front of the text of f
WithEq(f) == [f EXCEPT !.eq = @ + 1]

\* The text of the absolute form of an address: "$A$1" for "A1".
Absolute(c) ==
    CASE c = "A1" -> "$A$1"
      [] c = "A2" -> "$A$2"
      [] c = "A3" -> "$A$3"
      [] c = "B1" -> "$B$1"

\* The sheet name of "Sheet1!A1", upper-cased.
SheetToken == "SHEET1"

Formulas ==
    {FNum(5), FDiv(1, 0), FSum("A1", "A3"), FAdd("A1", 1), FIfError("A1", 0)}
    \cup {FRef(c) : c \in Addr}

Literals == {Num(2), Num(10)}

(***************************************************************************)
(* The cell store: an object whose keys keep their insertion order, as a  *)
(* sequence of entries [addr, value, formula].                             *)
(***************************************************************************)
Entry(a, v, f) == [addr |-> a, value |-> v, formula |-> f]

Keys(sheet) == {sheet[i].addr : i \in 1..Len(sheet)}

IndexOf(sheet, a) == CHOOSE i \in 1..Len(sheet) : sheet[i].addr = a

\* sheetData[a] = e : an existing key keeps its place, a new key goes last.
Put(sheet, e) ==
    IF e.addr \in Keys(sheet)
    THEN [sheet EXCEPT ![IndexOf(sheet, e.addr)] = e]
    ELSE Append(sheet, e)

\* delete sheetData[a]
Delete(sheet, a) ==
    IF a \in Keys(sheet)
    THEN LET i == IndexOf(sheet, a)
         IN  SubSeq(sheet, 1, i - 1) \o SubSeq(sheet, i + 1, Len(sheet))
    ELSE sheet

\* cellData?.formula is truthy
HasFormula(sheet, a) ==
    a \in Keys(sheet) /\ sheet[IndexOf(sheet, a)].formula # NoFormula

FormulaOf(sheet, a) == sheet[IndexOf(sheet, a)].formula

getCellValue(sheet, a) ==
    IF a \in Keys(sheet) THEN sheet[IndexOf(sheet, a)].value ELSE NullV

getCellFormula(sheet, a) ==
    IF a \in Keys(sheet) THEN sheet[IndexOf(sheet, a)].formula ELSE NoFormula

(***************************************************************************)
(* extractCellReferences: the matches of                                   *)
(*   /([A-Z]+[0-9]+)|(\$?[A-Z]+\$?[0-9]+)|([A-Z_][A-Z0-9_]*![A-Z]+[0-9]+)/gi *)
(* in the formula text, left to right, upper-cased, duplicates kept.  A    *)
(* range "A1:A3" matches at its two corners only; a function name without *)
(* a digit and a number without a letter match nothing.  On "$A$1" the     *)
(* first alternative fails at "$" and the second matches the whole token;  *)
(* on "Sheet1!A1" the first alternative matches "Sheet1" and then "A1",    *)
(* and the third alternative never gets its turn.  A "=" in front matches  *)
(* nothing.                                                                *)
(***************************************************************************)
extractCellReferences(f) ==
    CASE f.op \in {"ref", "add", "iferror"} -> <<f.a>>
      [] f.op = "sum" -> <<f.a, f.b>>
      [] f.op = "abs" -> <<Absolute(f.a)>>
      [] f.op = "sheet" -> <<SheetToken, f.a>>
      [] OTHER -> <<>>

RefSet(f) == {extractCellReferences(f)[i] : i \in 1..Len(extractCellReferences(f))}

(***************************************************************************)
(* buildDependencyGraph, first loop: dependencies maps a referenced        *)
(* address to the set of formula cells whose references contain it.        *)
(***************************************************************************)
FormulaCells(sheet) == {a \in Keys(sheet) : HasFormula(sheet, a)}

\* new Map(), or the map after clear()
EmptyMap == [r \in {} |-> {}]

BuildDependencies(sheet) ==
    LET refd == UNION {RefSet(FormulaOf(sheet, c)) : c \in FormulaCells(sheet)}
    IN  [r \in refd |-> {c \in FormulaCells(sheet) : r \in RefSet(FormulaOf(sheet, c))}]

(***************************************************************************)
(* buildDependencyGraph, topological sort.  The state of the traversal is *)
(* [visited, temp, order, ok]; ok is the boolean the last visit() call    *)
(* returned.  A visit that fails returns at once and leaves the cells of  *)
(* its call chain in temp.                                                 *)
(***************************************************************************)
InitVisit == [visited |-> {}, temp |-> {}, order |-> <<>>, ok |-> TRUE]

\* Mutation of VisitDone: the finished cell is put in front of the order.
VisitDoneFront(st, cell) ==
    [st EXCEPT !.temp = @ \ {cell}, !.visited = @ \cup {cell},
               !.order = <<cell>> \o @, !.ok = TRUE]

\* temp.delete(cell); visited.add(cell); calculationOrder.push(cell); return true
VisitDone(st, cell) ==
    [st EXCEPT !.temp = @ \ {cell}, !.visited = @ \cup {cell},
               !.order = Append(@, cell), !.ok = TRUE]

RECURSIVE visit(_, _, _), VisitRefs(_, _, _, _)

visit(sheet, cell, st) ==
    IF cell \in st.temp THEN [st EXCEPT !.ok = FALSE]
    ELSE IF cell \in st.visited THEN [st EXCEPT !.ok = TRUE]
    ELSE LET st1 == [st EXCEPT !.temp = @ \cup {cell}]
             st2 == IF HasFormula(sheet, cell)
                    THEN VisitRefs(sheet, extractCellReferences(FormulaOf(sheet, cell)), 1, st1)
                    ELSE [st1 EXCEPT !.ok = TRUE]
         IN  IF ~st2.ok THEN st2 ELSE VisitDone(st2, cell)

\* for (const ref of refs) { if (!visit(ref)) return false; }
VisitRefs(sheet, refs, i, st) ==
    IF i > Len(refs) THEN [st EXCEPT !.ok = TRUE]
    ELSE LET s == visit(sheet, refs[i], st)
         IN  IF ~s.ok THEN s ELSE VisitRefs(sheet, refs, i + 1, s)

RECURSIVE VisitAllAbort(_, _, _)

\* Mutation of VisitAll: the first failed visit ends the whole loop.
VisitAllAbort(sheet, i, st) ==
    IF i > Len(sheet) THEN st
    ELSE IF sheet[i].addr \in st.visited THEN VisitAllAbort(sheet, i + 1, st)
    ELSE LET s == visit(sheet, sheet[i].addr, st)
         IN  IF ~s.ok THEN s ELSE VisitAllAbort(sheet, i + 1, s)

RECURSIVE VisitAll(_, _, _)

\* for (const cell of Object.keys(sheetData)) if (!visited.has(cell)) visit(cell)
VisitAll(sheet, i, st) ==
    IF i > Len(sheet) THEN st
    ELSE IF sheet[i].addr \in st.visited THEN VisitAll(sheet, i + 1, st)
    ELSE VisitAll(sheet, i + 1, visit(sheet, sheet[i].addr, st))

\* The order with the cells pushed last coming first.
BuildOrderReversed(sheet) ==
    LET o == VisitAll(sheet, 1, InitVisit).order
    IN  [i \in 1..Len(o) |-> o[Len(o) + 1 - i]]

BuildOrder(sheet) == VisitAll(sheet, 1, InitVisit).order

(***************************************************************************)
(* Evaluation.  parse models Parser.parse of hot-formula-parser with the  *)
(* callCellValue / callRangeValue handlers of evaluateFormula: it returns *)
(* [error, result].  The handlers hand the parser the stored value, so an *)
(* error held by a cell reaches the parser as a string, not as an Error.   *)
(***************************************************************************)
Ok(v) == [error |-> "", result |-> v]

Fail(e) == [error |-> e, result |-> NullV]

\* callRangeValue: the values of the rectangle, row by row.
RangeCells(c, d) ==
    {coordToAddress(row, col) :
        row \in parseCellAddress(c).row .. parseCellAddress(d).row,
        col \in parseCellAddress(c).col .. parseCellAddress(d).col}

RECURSIVE SumNums(_, _)

\* SUM adds the numbers of the range and skips null and non-numeric text.
SumNums(sheet, cells) ==
    IF cells = {} THEN 0
    ELSE LET c == CHOOSE x \in cells : TRUE
             v == getCellValue(sheet, c)
         IN  (IF v.k = "num" THEN v.n ELSE 0) + SumNums(sheet, cells \ {c})

parse(f, sheet) ==
    CASE f.eq > 0 -> Fail("#ERROR!")
      [] f.op = "num" -> Ok(Num(f.n))
      [] f.op = "div" ->
            IF f.m # 0 THEN Ok(Num(f.n \div f.m))
            ELSE IF f.n = 0 THEN Fail("#VALUE!") ELSE Fail("#DIV/0!")
      [] f.op = "ref" -> Ok(getCellValue(sheet, f.a))
      [] f.op = "add" ->
            LET v == getCellValue(sheet, f.a)
            IN  IF v.k = "num" THEN Ok(Num(v.n + f.n)) ELSE Fail("#VALUE!")
      [] f.op = "iferror" -> Ok(getCellValue(sheet, f.a))
      [] f.op = "abs" -> Ok(getCellValue(sheet, f.a))
      [] f.op = "sum" -> Ok(Num(SumNums(sheet, RangeCells(f.a, f.b))))
      [] OTHER -> Fail("#ERROR!")

\* if (result.error) return formatError(result.error); return result.result
evaluateFormula(f, sheet) ==
    LET r == parse(f, sheet)
    IN  IF r.error # "" THEN Err(formatError(r.error)) ELSE r.result

RECURSIVE RecalcFrom(_, _, _)

\* recalculate(): for each address of the order that holds a formula,
\* cellData.value = evaluateFormula(cellData.formula)
RecalcFrom(sheet, order, i) ==
    IF i > Len(order) THEN sheet
    ELSE IF HasFormula(sheet, order[i])
         THEN LET f == FormulaOf(sheet, order[i])
                  e == Entry(order[i], evaluateFormula(f, sheet), f)
              IN  RecalcFrom(Put(sheet, e), order, i + 1)
         ELSE RecalcFrom(sheet, order, i + 1)

Recalc(sheet, order) == RecalcFrom(sheet, order, 1)

(***************************************************************************)
(* The dependency relation of the store, for stating properties.           *)
(***************************************************************************)
\* The addresses that the references of a's formula name.
DependsOn(sheet, a) ==
    IF HasFormula(sheet, a) THEN RefSet(FormulaOf(sheet, a)) ELSE {}

\* The cells the evaluation of a's formula reads: every cell of a range.
Reads(sheet, a) ==
    IF ~HasFormula(sheet, a) THEN {}
    ELSE LET f == FormulaOf(sheet, a)
         IN  IF f.op = "sum" THEN RangeCells(f.a, f.b)
             ELSE IF f.op = "abs" THEN {f.a} ELSE RefSet(f)

RECURSIVE RefClosure(_, _)

RefClosure(sheet, S) ==
    LET T == S \cup UNION {DependsOn(sheet, x) : x \in S}
    IN  IF T = S THEN S ELSE RefClosure(sheet, T)

RECURSIVE ReadClosure(_, _)

ReadClosure(sheet, S) ==
    LET T == S \cup UNION {Reads(sheet, x) : x \in S}
    IN  IF T = S THEN S ELSE ReadClosure(sheet, T)

\* a lies on a cycle of the reference graph.
OnCycle(sheet, a) == a \in RefClosure(sheet, DependsOn(sheet, a))

\* a lies on a cycle or depends, directly or transitively, on a cell that does.
CycleAffected(sheet, a) ==
    \E d \in RefClosure(sheet, {a}) : OnCycle(sheet, d)

Cyclic(sheet) == \E a \in Keys(sheet) : OnCycle(sheet, a)

\* No cell is read, directly or transitively, by the evaluation of itself.
ReadAcyclic(sheet) ==
    \A a \in Keys(sheet) : a \notin ReadClosure(sheet, Reads(sheet, a))

\* Every formula cell holds its formula evaluated on the current values.
AllCurrent(sheet) ==
    \A a \in FormulaCells(sheet) :
        getCellValue(sheet, a) = evaluateFormula(FormulaOf(sheet, a), sheet)

(***************************************************************************)
(* Initial state: new FormulaEngine(initialData).  The constructor builds  *)
(* the graph and does not evaluate.  The grid component fills initialData  *)
(* row by row, a formula cell with value null.                             *)
(***************************************************************************)
InitialSheets ==
    { <<>>,
      <<Entry("A1", NullV, FRef("A2")), Entry("A2", NullV, FRef("A1")),
        Entry("A3", NullV, FNum(5))>>,
      <<Entry("A1", Num(2), NoFormula), Entry("B1", NullV, FSum("A1", "A3")),
        Entry("A2", NullV, FRef("A1"))>>,
      <<Entry("A1", Num(2), NoFormula), Entry("B1", NullV, FSum("A1", "A3")),
        Entry("A2", Num(3), NoFormula)>> }

\* The arguments of the last write: the address and the formula text passed.
Call(a, f) == [addr |-> a, formula |-> f]

NoCall == Call("", NoFormula)

\* No engine call is running and none waits.
PassIdle == pc = "idle" /\ passIdx = 0 /\ passId = 0 /\ tasks = <<>>

\* No row is stored, no procedure was called and no socket is connected.
\* insertId holds the last AUTO_INCREMENT id of each table.
ServerIdle ==
    /\ db = [spreadsheets |-> <<>>, checkpoints |-> <<>>, chatMessages |-> <<>>,
             macros |-> <<>>, comments |-> <<>>,
             insertId |-> [spreadsheets |-> 0, checkpoints |-> 0,
                           chatMessages |-> 0, macros |-> 0, comments |-> 0]]
    /\ response = [proc |-> "", user |-> 0, input |-> 0, code |-> "",
                   data |-> <<>>]
    /\ activeUsers = <<>>
    /\ spreadsheetRooms = <<>>
    /\ socketRooms = <<>>

\* No pure-function call is modelled.
FnIdle == call = <<>> /\ result = <<>>

Init ==
    /\ sheetData \in InitialSheets
    /\ dependencies = BuildDependencies(sheetData)
    /\ calculationOrder = BuildOrder(sheetData)
    /\ lastOp = "constructor"
    /\ ops = 0
    /\ graphFresh = TRUE
    /\ recovery = FALSE
    /\ litEdit = ""
    /\ lastCall = NoCall
    /\ PassIdle
    /\ ServerIdle
    /\ FnIdle

(***************************************************************************)
(* Operations                                                              *)
(***************************************************************************)
\* A write repairs the store when it had a reference cycle and has none now.
Repairs(after) == Cyclic(sheetData) /\ ~Cyclic(after)

\* setCellValue(a, v, f): store {value, formula}; only when a formula is
\* given, rebuild the graph and run a pass.
setCellValue(a, v, f) ==
    LET s1 == Put(sheetData, Entry(a, v, f))
    IN  /\ ops < MaxOps
        /\ IF f # NoFormula
           THEN /\ dependencies' = BuildDependencies(s1)
                /\ calculationOrder' = BuildOrder(s1)
                /\ sheetData' = Recalc(s1, calculationOrder')
                /\ graphFresh' = TRUE
                /\ litEdit' = ""
           ELSE /\ sheetData' = s1
                /\ UNCHANGED <<dependencies, calculationOrder>>
                /\ graphFresh' = FALSE
                /\ litEdit' = IF a \in Keys(sheetData) /\ ~HasFormula(sheetData, a)
                              THEN a ELSE ""
        /\ recovery' = Repairs(s1)
        /\ lastCall' = Call(a, f)
        /\ UNCHANGED <<passVars, fnVars, serverVars>>
        /\ lastOp' = "setCellValue"
        /\ ops' = ops + 1

\* formula.substring(1) whatever the first character is: a body without "="
\* in front loses its first character.
cleanFormulaAlways(f) ==
    IF f.eq > 0 THEN [f EXCEPT !.eq = @ - 1] ELSE [f EXCEPT !.op = "cut"]

\* formula.startsWith('=') ? formula.substring(1) : formula
cleanFormula(f) == IF f.eq > 0 THEN [f EXCEPT !.eq = @ - 1] ELSE f

\* setCellFormula(a, f): store {value: null, formula: cleanFormula}, rebuild,
\* run a pass.
setCellFormula(a, f) ==
    LET s1 == Put(sheetData, Entry(a, NullV, cleanFormula(f)))
    IN  /\ ops < MaxOps
        /\ lastCall' = Call(a, f)
        /\ dependencies' = BuildDependencies(s1)
        /\ calculationOrder' = BuildOrder(s1)
        /\ sheetData' = Recalc(s1, calculationOrder')
        /\ graphFresh' = TRUE
        /\ litEdit' = ""
        /\ recovery' = Repairs(s1)
        /\ UNCHANGED <<passVars, fnVars, serverVars>>
        /\ lastOp' = "setCellFormula"
        /\ ops' = ops + 1

\* clearCell(a): delete the entry, rebuild, run a pass.
clearCell(a) ==
    LET s1 == Delete(sheetData, a)
    IN  /\ ops < MaxOps
        /\ dependencies' = BuildDependencies(s1)
        /\ calculationOrder' = BuildOrder(s1)
        /\ sheetData' = Recalc(s1, calculationOrder')
        /\ graphFresh' = TRUE
        /\ litEdit' = ""
        /\ recovery' = Repairs(s1)
        /\ lastCall' = Call(a, NoFormula)
        /\ UNCHANGED <<passVars, fnVars, serverVars>>
        /\ lastOp' = "clearCell"
        /\ ops' = ops + 1

\* clearAll(): empty store, empty graph, empty order.
clearAll ==
    /\ ops < MaxOps
    /\ sheetData' = <<>>
    /\ dependencies' = EmptyMap
    /\ calculationOrder' = <<>>
    /\ graphFresh' = TRUE
    /\ litEdit' = ""
    /\ recovery' = FALSE
    /\ lastCall' = NoCall
    /\ UNCHANGED <<passVars, fnVars, serverVars>>
    /\ lastOp' = "clearAll"
    /\ ops' = ops + 1

\* recalculate(): one pass over the current calculationOrder.
recalculate ==
    /\ ops < MaxOps
    /\ sheetData' = Recalc(sheetData, calculationOrder)
    /\ UNCHANGED <<dependencies, calculationOrder, graphFresh, recovery, litEdit, lastCall>>
    /\ UNCHANGED <<passVars, fnVars, serverVars>>
    /\ lastOp' = "recalculate"
    /\ ops' = ops + 1

\* The formulas a caller passes through setCellValue's third argument.
ValueFormulas == {NoFormula, FNum(5), FRef("A1")}

\* The engine's public operations, called one after the other; the grid
\* passes a formula text with its "=" already taken away.
Next ==
    \/ \E a \in Addr, v \in Literals, f \in ValueFormulas : setCellValue(a, v, f)
    \/ \E a \in Addr, f \in Formulas : setCellFormula(a, f)
    \/ \E a \in Addr : clearCell(a)
    \/ clearAll
    \/ recalculate

Spec == Init /\ [][Next]_vars

(***************************************************************************)
(* Second specification: the constructor applied to every store of at most *)
(* MaxCells cells over the grid, in every insertion order, followed by     *)
(* evaluation passes.                                                      *)
(***************************************************************************)
MaxCells == 3

GraphFormulas == {FNum(5), FSum("A1", "A3")} \cup {FRef(c) : c \in Addr}

CellContents == {[value |-> Num(2), formula |-> NoFormula]}
                \cup {[value |-> NullV, formula |-> f] : f \in GraphFormulas}

KeyOrders(k) == {p \in [1..k -> Addr] : \A i, j \in 1..k : i # j => p[i] # p[j]}

\* The store with keys p[1..k] inserted in this order and contents c[1..k].
SheetOf(k, p, c) == [i \in 1..k |-> Entry(p[i], c[i].value, c[i].formula)]

GraphInit ==
    /\ \E k \in 0..MaxCells : \E p \in KeyOrders(k) : \E c \in [1..k -> CellContents] :
          sheetData = SheetOf(k, p, c)
    /\ dependencies = BuildDependencies(sheetData)
    /\ calculationOrder = BuildOrder(sheetData)
    /\ lastOp = "constructor"
    /\ ops = 0
    /\ graphFresh = TRUE
    /\ recovery = FALSE
    /\ litEdit = ""
    /\ lastCall = NoCall
    /\ PassIdle
    /\ ServerIdle
    /\ FnIdle

\* The grid component runs one pass right after constructing the engine.
GraphNext == lastOp = "constructor" /\ recalculate

SpecGraph == GraphInit /\ [][GraphNext]_vars

(***************************************************************************)
(* Properties                                                              *)
(***************************************************************************)
InOrder(a) == \E i \in 1..Len(calculationOrder) : calculationOrder[i] = a

\* The operations that end with an evaluation pass.
PassOps == {"recalculate", "setCellFormula", "clearCell"}

\* C1: after recalculate() returns on a store without circular reads, every
\* formula cell holds its current formula evaluated on the current values.
C1_RecalculateCurrent ==
    (lastOp = "recalculate" /\ ReadAcyclic(sheetData)) => AllCurrent(sheetData)

\* C2: a cycle does not abort scheduling: once the graph is rebuilt, a cell of
\* the store is in the calculation order iff it is neither on a cycle nor
\* dependent on one, and a pass gives an unaffected reference-free formula
\* cell (such as "=5") its value.
C2_CycleContainment ==
    graphFresh =>
        /\ \A a \in Keys(sheetData) : InOrder(a) <=> ~CycleAffected(sheetData, a)
        /\ lastOp \in PassOps =>
              \A a \in FormulaCells(sheetData) :
                  (~CycleAffected(sheetData, a) /\ Reads(sheetData, a) = {}) =>
                      getCellValue(sheetData, a)
                          = evaluateFormula(FormulaOf(sheetData, a), sheetData)

C2_Witness ==
    /\ lastOp = "recalculate"
    /\ getCellFormula(sheetData, "A1") = FRef("A2")
    /\ getCellFormula(sheetData, "A2") = FRef("A1")
    /\ OnCycle(sheetData, "A1") /\ OnCycle(sheetData, "A2")
    /\ ~InOrder("A1") /\ ~InOrder("A2")
    /\ HasFormula(sheetData, "A3") /\ FormulaOf(sheetData, "A3") = FNum(5)
    /\ InOrder("A3") /\ getCellValue(sheetData, "A3") = Num(5)

\* The circular-reference sentinel: an error string that is none of the
\* seven standard codes.
IsCircularSentinel(v) == v.k = "err" /\ v.s \notin StandardErrors

\* C3: after an evaluation pass every cell on a cycle, and every cell that
\* depends on one, holds the circular-reference sentinel.
C3_CircularSentinel ==
    lastOp \in PassOps =>
        \A a \in Keys(sheetData) :
            CycleAffected(sheetData, a) => IsCircularSentinel(getCellValue(sheetData, a))

\* C4: recalculate() directly after recalculate() changes no cell.
C4_Idempotent ==
    [][(lastOp = "recalculate" /\ lastOp' = "recalculate") => sheetData' = sheetData]_vars

\* C5: after a write has removed the circular reference and recalculate() has
\* run, every formula cell holds the value of its current formula.
C5_Recovery ==
    (lastOp = "recalculate" /\ recovery) => AllCurrent(sheetData)

\* C6: the calculation order has no address twice, and every address
\* extracted from the formula of a cell in it occurs earlier in it.
C6_TopologicalOrder ==
    /\ \A i, j \in 1..Len(calculationOrder) :
          i # j => calculationOrder[i] # calculationOrder[j]
    /\ \A i \in 1..Len(calculationOrder) :
          \A r \in DependsOn(sheetData, calculationOrder[i]) :
              \E j \in 1..(i - 1) : calculationOrder[j] = r

C6_Witness ==
    /\ Len(calculationOrder) = 4
    /\ \E i \in 1..4 : Cardinality(DependsOn(sheetData, calculationOrder[i])) = 2
    /\ \E i \in 1..4 : /\ Cardinality(DependsOn(sheetData, calculationOrder[i])) = 1
                       /\ HasFormula(sheetData, CHOOSE r \in DependsOn(sheetData, calculationOrder[i]) : TRUE)

\* The formula cells of an order, in their order.
FormulaOrder(order) == SelectSeq(order, LAMBDA a : HasFormula(sheetData, a))

\* C7: in every state the reverse-edge map holds ref -> X iff X holds a
\* formula that references ref, and the formula cells are scheduled as in
\* the order derived from the current formulas.
C7_GraphMirrorsFormulas ==
    /\ \A r \in Addr, x \in Addr :
          (r \in DOMAIN dependencies /\ x \in dependencies[r])
              <=> (HasFormula(sheetData, x) /\ r \in RefSet(FormulaOf(sheetData, x)))
    /\ FormulaOrder(calculationOrder) = FormulaOrder(BuildOrder(sheetData))

\* C8: after setCellValue changed a literal cell and recalculate() ran, a
\* formula cell that reads the edited cell and reads only literal cells
\* holds its formula applied to the new literals.
C8_LiteralEdit ==
    (lastOp = "recalculate" /\ litEdit # "") =>
        \A a \in FormulaCells(sheetData) :
            ( /\ litEdit \in Reads(sheetData, a)
              /\ \A r \in Reads(sheetData, a) :
                    r \in Keys(sheetData) /\ ~HasFormula(sheetData, r) )
            => getCellValue(sheetData, a)
                   = evaluateFormula(FormulaOf(sheetData, a), sheetData)

\* C9: a formula with an operand cell that holds an error evaluates to that
\* error, and IFERROR over such a cell evaluates to its fallback.
C9_ErrorPropagation ==
    \A a \in FormulaCells(sheetData) :
        LET f == FormulaOf(sheetData, a)
            v == getCellValue(sheetData, f.a)
        IN  /\ (f.op \in {"ref", "add"} /\ v.k = "err")
                  => evaluateFormula(f, sheetData) = v
            /\ (f.op = "iferror" /\ v.k = "err")
                  => evaluateFormula(f, sheetData) = Num(f.n)

\* The orders of the scheduled addresses in which every address extracted
\* from a formula comes before the cell of that formula.
TopoOrders(sheet, order) ==
    LET n == Len(order)
        nodes == {order[i] : i \in 1..n}
    IN  {o \in [1..n -> nodes] :
            /\ \A i, j \in 1..n : i # j => o[i] # o[j]
            /\ \A i \in 1..n : \A r \in DependsOn(sheet, o[i]) :
                  \E j \in 1..(i - 1) : o[j] = r}

\* C10: on a store without circular reads, a pass in any topological order
\* of the dependency graph ends with the values of the engine's own order.
C10_OrderIndependence ==
    (graphFresh /\ ReadAcyclic(sheetData)) =>
        \A o \in TopoOrders(sheetData, calculationOrder) :
            Recalc(sheetData, o) = Recalc(sheetData, calculationOrder)

(***************************************************************************)
(* Writes and what follows them                                            *)
(***************************************************************************)
WriteOps == {"setCellValue", "setCellFormula", "clearCell"}

\* The formula cells that reference a directly or transitively.
Dependents(sheet, a) ==
    {c \in FormulaCells(sheet) : a \in RefClosure(sheet, DependsOn(sheet, c))}

\* C12: when setCellValue, setCellFormula or clearCell returns, every formula
\* cell that references the written address, directly or transitively, holds
\* its formula evaluated on the current values.
C12_RealTime ==
    lastOp \in WriteOps =>
        \A c \in Dependents(sheetData, lastCall.addr) :
            getCellValue(sheetData, c)
                = evaluateFormula(FormulaOf(sheetData, c), sheetData)

\* C15: after clearCell(X), every formula cell whose formula references X
\* holds #REF!.
C15_ClearedReference ==
    lastOp = "clearCell" =>
        \A c \in FormulaCells(sheetData) :
            lastCall.addr \in DependsOn(sheetData, c)
                => getCellValue(sheetData, c) = Err("#REF!")

(***************************************************************************)
(* The engine called with the reference forms, with texts that begin with  *)
(* "=", with a text the parser rejects and with an address that is not of  *)
(* the form ^[A-Z]+[0-9]+$.                                                *)
(***************************************************************************)
FormAddr == {"A1", "B1"}

\* "a1" does not match ^[A-Z]+[0-9]+$.
BadAddr == {"a1"}

\* a matches ^[A-Z]+[0-9]+$, among the addresses of the model.
MatchesAddress(a) == a \in Addr

FormFormulas ==
    {FRef("A1"), FAbs("A1"), FSheet("A1"), FBad, FDiv(1, 0), FSum("A1", "A3"),
     WithEq(FRef("A1"))}

FormSheets == {<<>>, <<Entry("A1", Num(2), NoFormula)>>}

FormsInit ==
    /\ sheetData \in FormSheets
    /\ dependencies = BuildDependencies(sheetData)
    /\ calculationOrder = BuildOrder(sheetData)
    /\ lastOp = "constructor"
    /\ ops = 0
    /\ graphFresh = TRUE
    /\ recovery = FALSE
    /\ litEdit = ""
    /\ lastCall = NoCall
    /\ PassIdle
    /\ ServerIdle
    /\ FnIdle

FormsNext ==
    \/ \E a \in FormAddr \cup BadAddr, f \in FormFormulas : setCellFormula(a, f)
    \/ \E a \in FormAddr \cup BadAddr : setCellValue(a, Num(2), NoFormula)
    \/ \E a \in FormAddr \cup BadAddr : clearCell(a)
    \/ recalculate

SpecForms == FormsInit /\ [][FormsNext]_vars

\* The place of a scheduled address in the calculation order.
PlaceOf(a) == CHOOSE i \in 1..Len(calculationOrder) : calculationOrder[i] = a

\* C13: the bare, absolute and cross-sheet forms of a reference to a cell give
\* the formula's cell that cell as its only dependency, and once the graph is
\* rebuilt a scheduled referenced cell comes before the formula's cell.
C13_ReferenceForms ==
    \A c \in FormulaCells(sheetData) :
        LET f == FormulaOf(sheetData, c)
        IN  (f.op \in {"ref", "abs", "sheet"} /\ f.eq = 0) =>
                /\ RefSet(f) = {f.a}
                /\ (graphFresh /\ InOrder(c) /\ InOrder(f.a) /\ f.a # c)
                      => PlaceOf(f.a) < PlaceOf(c)

C17_InvalidAddress ==
    [][ (lastOp' \in WriteOps /\ ~MatchesAddress(lastCall'.addr))
            => UNCHANGED engineVars ]_vars

(***************************************************************************)
(* The evaluation pass cell by cell.  The engine's methods are synchronous *)
(* (no await, no callback that writes): a call made while another runs     *)
(* waits in the task queue of the runtime until the running one returns.   *)
(***************************************************************************)
Task(o, a, v, f) == [op |-> o, addr |-> a, value |-> v, formula |-> f]

PassCalls ==
    { Task("recalculate", "", NullV, NoFormula),
      Task("setCellFormula", "A1", NullV, FNum(5)),
      Task("setCellFormula", "A2", NullV, FRef("A1")),
      Task("clearCell", "A1", NullV, NoFormula),
      Task("setCellValue", "A1", Num(10), NoFormula) }

\* A call may start when the running one goes on regardless of what waits.
CanStartAnytime == TRUE

\* A call starts only when no call is running: run to completion.
CanStart == pc = "idle"

\* An event handler issues a call; it waits for its turn.
Enqueue(t) ==
    /\ ops < MaxOps
    /\ tasks' = Append(tasks, t)
    /\ ops' = ops + 1
    /\ UNCHANGED <<engineVars, lastOp, graphFresh, recovery, litEdit, lastCall,
                   pc, passIdx, passId, fnVars, serverVars>>

\* recalculate() is entered: the loop over calculationOrder begins.
BeginRecalculate ==
    /\ CanStart /\ tasks # <<>> /\ Head(tasks).op = "recalculate"
    /\ tasks' = Tail(tasks)
    /\ pc' = "pass" /\ passIdx' = 1 /\ passId' = passId + 1
    /\ lastOp' = "recalculate"
    /\ UNCHANGED <<engineVars, ops, graphFresh, recovery, litEdit, lastCall, fnVars,
                 serverVars>>

\* setCellFormula up to its call of recalculate(): store, rebuild.
BeginSetCellFormula ==
    /\ CanStart /\ tasks # <<>> /\ Head(tasks).op = "setCellFormula"
    /\ LET t == Head(tasks)
           s1 == Put(sheetData, Entry(t.addr, NullV, cleanFormula(t.formula)))
       IN  /\ sheetData' = s1
           /\ dependencies' = BuildDependencies(s1)
           /\ calculationOrder' = BuildOrder(s1)
           /\ lastCall' = Call(t.addr, t.formula)
    /\ tasks' = Tail(tasks)
    /\ pc' = "pass" /\ passIdx' = 1 /\ passId' = passId + 1
    /\ lastOp' = "setCellFormula"
    /\ graphFresh' = TRUE
    /\ UNCHANGED <<ops, recovery, litEdit, fnVars, serverVars>>

\* clearCell up to its call of recalculate(): delete, rebuild.
BeginClearCell ==
    /\ CanStart /\ tasks # <<>> /\ Head(tasks).op = "clearCell"
    /\ LET t == Head(tasks)
           s1 == Delete(sheetData, t.addr)
       IN  /\ sheetData' = s1
           /\ dependencies' = BuildDependencies(s1)
           /\ calculationOrder' = BuildOrder(s1)
           /\ lastCall' = Call(t.addr, NoFormula)
    /\ tasks' = Tail(tasks)
    /\ pc' = "pass" /\ passIdx' = 1 /\ passId' = passId + 1
    /\ lastOp' = "clearCell"
    /\ graphFresh' = TRUE
    /\ UNCHANGED <<ops, recovery, litEdit, fnVars, serverVars>>

\* setCellValue with a literal: store it; no rebuild and no pass.
WriteLiteral ==
    /\ CanStart /\ tasks # <<>> /\ Head(tasks).op = "setCellValue"
    /\ LET t == Head(tasks)
       IN  /\ sheetData' = Put(sheetData, Entry(t.addr, t.value, t.formula))
           /\ lastCall' = Call(t.addr, t.formula)
    /\ tasks' = Tail(tasks)
    /\ lastOp' = "setCellValue"
    /\ graphFresh' = FALSE
    /\ UNCHANGED <<dependencies, calculationOrder, ops, recovery, litEdit,
                   pc, passIdx, passId, fnVars, serverVars>>

\* The store after the body of the loop of recalculate() has run for the
\* i-th address of the order.
EvalAt(sheet, order, i) ==
    IF HasFormula(sheet, order[i])
    THEN LET f == FormulaOf(sheet, order[i])
         IN  Put(sheet, Entry(order[i], evaluateFormula(f, sheet), f))
    ELSE sheet

\* One turn of the loop of recalculate().
EvalCell ==
    /\ pc = "pass" /\ passIdx <= Len(calculationOrder)
    /\ sheetData' = EvalAt(sheetData, calculationOrder, passIdx)
    /\ passIdx' = passIdx + 1
    /\ UNCHANGED <<dependencies, calculationOrder, lastOp, ops, graphFresh,
                   recovery, litEdit, lastCall, pc, passId, tasks, fnVars,
                 serverVars>>

\* The loop is over: the call returns.
EndPass ==
    /\ pc = "pass" /\ passIdx > Len(calculationOrder)
    /\ pc' = "idle" /\ passIdx' = 0
    /\ UNCHANGED <<engineVars, lastOp, ops, graphFresh, recovery, litEdit,
                   lastCall, passId, tasks, fnVars, serverVars>>

PassNext ==
    \/ \E t \in PassCalls : Enqueue(t)
    \/ BeginRecalculate
    \/ BeginSetCellFormula
    \/ BeginClearCell
    \/ WriteLiteral
    \/ EvalCell
    \/ EndPass

SpecPass == Init /\ [][PassNext]_vars

\* C11: while a pass is in flight no other pass starts, the graph and the
\* order stay as they are, and the store changes only by the evaluation of
\* the next cell of the order of the pass in flight.
C11_NoInterleaving ==
    [][ pc = "pass" =>
          /\ passId' = passId
          /\ UNCHANGED <<dependencies, calculationOrder>>
          /\ sheetData' # sheetData =>
                /\ passIdx <= Len(calculationOrder)
                /\ passIdx' = passIdx + 1
                /\ sheetData' = EvalAt(sheetData, calculationOrder, passIdx) ]_vars

\* A pass has evaluated a cell and has more to do while another call waits.
C11_Witness ==
    /\ pc = "pass"
    /\ passIdx > 1 /\ passIdx <= Len(calculationOrder)
    /\ tasks # <<>>
    /\ \E i \in 1..(passIdx - 1) : HasFormula(sheetData, calculationOrder[i])

(***************************************************************************)
(* Address texts character by character.  A text is the sequence of its    *)
(* character codes: "A" is 65, "Z" is 90, "0" is 48, "9" is 57.            *)
(***************************************************************************)
MaxCol == 705

MaxRow == 11

IsLetter(ch) == ch >= 65 /\ ch <= 90

IsDigit(ch) == ch >= 48 /\ ch <= 57

RECURSIVE numberToColumnLoop(_, _)

\* while (num >= 0) { column = String.fromCharCode((num % 26) + 65) + column;
\*                    num = Math.floor(num / 26) - 1 }
numberToColumnLoop(num, column) ==
    IF num >= 0
    THEN numberToColumnLoop((num \div 26) - 1, <<(num % 26) + 65>> \o column)
    ELSE column

numberToColumn(num) == numberToColumnLoop(num, <<>>)

RECURSIVE DecimalText(_)

\* The text of a non-negative integer in a template literal.
DecimalText(x) ==
    IF x < 10 THEN <<48 + x>> ELSE DecimalText(x \div 10) \o <<48 + (x % 10)>>

\* coordToAddress(row, col): `${numberToColumn(col)}${row + 1}`
coordToAddressText(row, col) == numberToColumn(col) \o DecimalText(row + 1)

RECURSIVE LettersLen(_, _)

\* The number of capital letters from place i of the text on.
LettersLen(t, i) ==
    IF i <= Len(t) /\ IsLetter(t[i]) THEN 1 + LettersLen(t, i + 1) ELSE 0

\* address.match(/^([A-Z]+)([0-9]+)$/)
MatchesGrammar(t) ==
    LET k == LettersLen(t, 1)
    IN  /\ k >= 1
        /\ k < Len(t)
        /\ \A i \in (k + 1)..Len(t) : IsDigit(t[i])

RECURSIVE ColumnNumberZeroBased(_, _, _)

\* The loop over colStr with charCodeAt(i) - 65: "A" counts as zero.
ColumnNumberZeroBased(colStr, i, col) ==
    IF i > Len(colStr) THEN col
    ELSE ColumnNumberZeroBased(colStr, i + 1, col * 26 + (colStr[i] - 65))

RECURSIVE ColumnNumber(_, _, _)

\* for (i = 0; i < colStr.length; i++) col = col * 26 + (colStr.charCodeAt(i) - 64)
ColumnNumber(colStr, i, col) ==
    IF i > Len(colStr) THEN col
    ELSE ColumnNumber(colStr, i + 1, col * 26 + (colStr[i] - 64))

RECURSIVE parseInt(_, _, _)

\* parseInt of a text of decimal digits
parseInt(rowStr, i, x) ==
    IF i > Len(rowStr) THEN x
    ELSE parseInt(rowStr, i + 1, x * 10 + (rowStr[i] - 48))

\* No match: null.
NoAddress == [ok |-> FALSE, col |-> 0, row |-> 0]

\* parseCellAddress(address) on a text: {col: col - 1, row: parseInt(rowStr) - 1}
parseCellAddressText(t) ==
    IF ~MatchesGrammar(t) THEN NoAddress
    ELSE LET k == LettersLen(t, 1)
             colStr == SubSeq(t, 1, k)
             rowStr == SubSeq(t, k + 1, Len(t))
         IN  [ok |-> TRUE,
              col |-> ColumnNumber(colStr, 1, 0) - 1,
              row |-> parseInt(rowStr, 1, 0) - 1]

\* Only the functions are called: the engine is left as constructed.
AddrInit ==
    /\ sheetData = <<>>
    /\ dependencies = BuildDependencies(sheetData)
    /\ calculationOrder = BuildOrder(sheetData)
    /\ lastOp = "constructor"
    /\ ops = 0
    /\ graphFresh = TRUE
    /\ recovery = FALSE
    /\ litEdit = ""
    /\ lastCall = NoCall
    /\ PassIdle
    /\ ServerIdle
    /\ FnIdle

\* coordToAddress(row, col) is called.
CallCoordToAddress(row, col) ==
    /\ Len(call) = 0
    /\ call' = <<row, col>>
    /\ result' = <<coordToAddressText(row, col)>>
    /\ UNCHANGED <<engineVars, lastOp, ops, graphFresh, recovery, litEdit,
                   lastCall, passVars, serverVars>>

\* parseCellAddress is called with the text coordToAddress returned.
CallParseCellAddress ==
    /\ Len(result) = 1
    /\ result' = <<result[1], parseCellAddressText(result[1])>>
    /\ UNCHANGED <<engineVars, lastOp, ops, graphFresh, recovery, litEdit,
                   lastCall, passVars, call, serverVars>>

AddrNext ==
    \/ \E row \in 0..MaxRow, col \in 0..MaxCol : CallCoordToAddress(row, col)
    \/ CallParseCellAddress

SpecAddr == AddrInit /\ [][AddrNext]_vars

RECURSIVE Power(_, _)

Power(b, e) == IF e = 0 THEN 1 ELSE b * Power(b, e - 1)

\* The number a text of letters stands for in base 26 with the digits
\* A = 1 .. Z = 26.
LetterValue(t) ==
    LET Part[i \in 0..Len(t)] ==
            IF i = 0 THEN 0
            ELSE Part[i - 1] + (t[i] - 64) * Power(26, Len(t) - i)
    IN  Part[Len(t)]

\* C18: the text of coordToAddress(row, col) matches ^[A-Z]+[0-9]+$, its
\* letters are col + 1 in base 26 without a zero digit (0 -> A, 25 -> Z,
\* 26 -> AA), its digits are row + 1, and parseCellAddress of the text
\* returns {col, row}.
C18_AddressRoundTrip ==
    Len(result) >= 1 =>
        LET row == call[1]
            col == call[2]
            t == result[1]
            k == LettersLen(t, 1)
        IN  /\ k >= 1 /\ k < Len(t)
            /\ \A i \in 1..k : IsLetter(t[i])
            /\ \A i \in (k + 1)..Len(t) : IsDigit(t[i])
            /\ LetterValue(SubSeq(t, 1, k)) = col + 1
            /\ col = 0 => SubSeq(t, 1, k) = <<65>>
            /\ col = 25 => SubSeq(t, 1, k) = <<90>>
            /\ col = 26 => SubSeq(t, 1, k) = <<65, 65>>
            /\ t[k + 1] # 48
            /\ SubSeq(t, k + 1, Len(t)) = DecimalText(row + 1)
            /\ Len(result) = 2 =>
                  result[2] = [ok |-> TRUE, col |-> col, row |-> row]

\* Column 702 and row 9 give "AAA10", which parses back.
C18_Witness ==
    /\ Len(result) = 2
    /\ call = <<9, 702>>
    /\ result[1] = <<65, 65, 65, 49, 48>>
    /\ result[2] = [ok |-> TRUE, col |-> 702, row |-> 9]

(***************************************************************************)
(* The formula debugger: analyzeFormula and its helpers.  A name is the    *)
(* sequence of its characters.  A formula text is "=" or nothing, followed *)
(* by calls joined with "+"; each call is a name, "(", the argument A1 and *)
(* ")" or nothing.                                                         *)
(***************************************************************************)
MaxCalls == 2

Alphabet ==
    <<"A", "B", "C", "D", "E", "F", "G", "H", "I", "J", "K", "L", "M",
      "N", "O", "P", "Q", "R", "S", "T", "U", "V", "W", "X", "Y", "Z">>

LowerAlphabet ==
    <<"a", "b", "c", "d", "e", "f", "g", "h", "i", "j", "k", "l", "m",
      "n", "o", "p", "q", "r", "s", "t", "u", "v", "w", "x", "y", "z">>

\* [A-Z]
IsCapital(ch) == \E i \in 1..26 : Alphabet[i] = ch

\* String.prototype.toUpperCase, on a character and on a name
UpperChar(ch) ==
    IF \E i \in 1..26 : LowerAlphabet[i] = ch
    THEN Alphabet[CHOOSE i \in 1..26 : LowerAlphabet[i] = ch]
    ELSE ch

toUpperCase(name) == [i \in 1..Len(name) |-> UpperChar(name[i])]

\* const validFunctions = [...]
validFunctions ==
    { <<"S", "U", "M">>,
      <<"A", "V", "E", "R", "A", "G", "E">>,
      <<"C", "O", "U", "N", "T">>,
      <<"M", "A", "X">>,
      <<"M", "I", "N">>,
      <<"I", "F">>,
      <<"V", "L", "O", "O", "K", "U", "P">>,
      <<"H", "L", "O", "O", "K", "U", "P">>,
      <<"I", "N", "D", "E", "X">>,
      <<"M", "A", "T", "C", "H">>,
      <<"S", "U", "M", "I", "F">>,
      <<"C", "O", "U", "N", "T", "I", "F">>,
      <<"A", "V", "E", "R", "A", "G", "E", "I", "F">>,
      <<"R", "O", "U", "N", "D">>,
      <<"R", "O", "U", "N", "D", "U", "P">>,
      <<"R", "O", "U", "N", "D", "D", "O", "W", "N">>,
      <<"A", "B", "S">>,
      <<"S", "Q", "R", "T">>,
      <<"P", "O", "W", "E", "R">>,
      <<"M", "O", "D">>,
      <<"C", "O", "N", "C", "A", "T", "E", "N", "A", "T", "E">>,
      <<"L", "E", "F", "T">>,
      <<"R", "I", "G", "H", "T">>,
      <<"M", "I", "D">>,
      <<"L", "E", "N">>,
      <<"T", "R", "I", "M">>,
      <<"U", "P", "P", "E", "R">>,
      <<"L", "O", "W", "E", "R">>,
      <<"P", "R", "O", "P", "E", "R">>,
      <<"D", "A", "T", "E">>,
      <<"T", "O", "D", "A", "Y">>,
      <<"N", "O", "W">>,
      <<"Y", "E", "A", "R">>,
      <<"M", "O", "N", "T", "H">>,
      <<"D", "A", "Y">>,
      <<"H", "O", "U", "R">>,
      <<"M", "I", "N", "U", "T", "E">>,
      <<"S", "E", "C", "O", "N", "D">>,
      <<"P", "M", "T">>,
      <<"F", "V">>,
      <<"P", "V">>,
      <<"R", "A", "T", "E">>,
      <<"N", "P", "E", "R">>,
      <<"I", "R", "R">>,
      <<"N", "P", "V">>,
      <<"A", "N", "D">>,
      <<"O", "R">>,
      <<"N", "O", "T">>,
      <<"I", "F", "E", "R", "R", "O", "R">>,
      <<"I", "S", "B", "L", "A", "N", "K">>,
      <<"I", "S", "E", "R", "R", "O", "R">>,
      <<"I", "S", "N", "U", "M", "B", "E", "R">>,
      <<"I", "S", "T", "E", "X", "T">> }

\* The closed function list of the specification: validFunctions without
\* SUMIF, COUNTIF, AVERAGEIF, ROUNDUP and ROUNDDOWN.
SpecFunctions ==
    validFunctions \ { <<"S", "U", "M", "I", "F">>,
                     <<"C", "O", "U", "N", "T", "I", "F">>,
                     <<"A", "V", "E", "R", "A", "G", "E", "I", "F">>,
                     <<"R", "O", "U", "N", "D", "U", "P">>,
                     <<"R", "O", "U", "N", "D", "D", "O", "W", "N">> }

\* validFunctions.includes(name.toUpperCase())
isValidFunction(name) == toUpperCase(name) \in validFunctions

\* suggestFunction without its table: 'SUM' for every name.
suggestFunctionDefault(name) == <<"S", "U", "M">>

\* suggestions[name.toUpperCase()] || 'SUM'
suggestFunction(name) ==
    LET u == toUpperCase(name)
    IN  CASE u = <<"A", "V", "G">> -> <<"A", "V", "E", "R", "A", "G", "E">>
          [] u = <<"C", "N", "T">> -> <<"C", "O", "U", "N", "T">>
          [] u = <<"C", "O", "N", "C", "A", "T">>
                -> <<"C", "O", "N", "C", "A", "T", "E", "N", "A", "T", "E">>
          [] u = <<"V", "L", "O", "O", "K">> -> <<"V", "L", "O", "O", "K", "U", "P">>
          [] u = <<"H", "L", "O", "O", "K">> -> <<"H", "L", "O", "O", "K", "U", "P">>
          [] OTHER -> <<"S", "U", "M">>

\* One call of the text: its name as written, and whether ")" closes it.
\* Its argument is the cell A1: args holds the references written in it.
CallToken(name, closed) == [name |-> name, closed |-> closed, args |-> <<"A1">>]

\* A closed call whose argument is the range A1:A5, as in "AVG(A1:A5)".
CallRange(name) == [name |-> name, closed |-> TRUE, args |-> <<"A1", "A5">>]

\* A formula text and the cell it is analysed for.
FormulaText(eq, calls, cellRef) == [eq |-> eq, calls |-> calls, cellRef |-> cellRef]

\* checkParentheses: every call has one "(", a closed call one ")".
checkParentheses(calls) ==
    LET open == Len(calls)
        close == Cardinality({i \in 1..Len(calls) : calls[i].closed})
    IN  [balanced |-> open = close, open |-> open, close |-> close]

RECURSIVE cellPatternFrom(_, _)

cellPatternFrom(calls, i) ==
    IF i > Len(calls) THEN <<>>
    ELSE calls[i].args \o cellPatternFrom(calls, i + 1)

\* The matches of /\b([A-Z]+[0-9]+)\b/g, left to right: the references in
\* the argument of every call, a range giving its two corners.
cellPattern(calls) == cellPatternFrom(calls, 1)

\* dependencies.includes(cellRef), looking at the first reference only.
includesFirst(deps, cellRef) == Len(deps) > 0 /\ deps[1] = cellRef

\* dependencies.includes(cellRef)
includes(deps, cellRef) == \E i \in 1..Len(deps) : deps[i] = cellRef

\* The matches of /\b([A-Z]+)\s*\(/g: the names before "(" that are capital
\* letters throughout; a name with a small letter gives no match, since no
\* word boundary lies inside a name.
functionPattern(calls) ==
    LET names == [i \in 1..Len(calls) |-> calls[i].name]
    IN  SelectSeq(names, LAMBDA n : \A i \in 1..Len(n) : IsCapital(n[i]))

FormulaError(t, f, sug) == [type |-> t, func |-> f, suggestion |-> sug]

\* functions.forEach: an error for every name that is not valid.
FunctionErrors(functions) ==
    LET unknown == SelectSeq(functions, LAMBDA n : ~isValidFunction(n))
    IN  [i \in 1..Len(unknown) |->
            FormulaError("reference", unknown[i], suggestFunction(unknown[i]))]

\* analyzeFormula(formula, cellRef)
analyzeFormula(t) ==
    IF ~t.eq THEN [isValid |-> TRUE, errors |-> <<>>, dependencies |-> <<>>]
    ELSE LET deps == cellPattern(t.calls)
             errors ==
                 (IF checkParentheses(t.calls).balanced THEN <<>>
                  ELSE <<FormulaError("syntax", <<>>, <<>>)>>)
                 \o FunctionErrors(functionPattern(t.calls))
                 \o (IF includes(deps, t.cellRef)
                     THEN <<FormulaError("circular", <<>>, <<>>)>>
                     ELSE <<>>)
         IN  [isValid |-> Len(errors) = 0, errors |-> errors,
              dependencies |-> deps]

\* The names written in the analysed texts: SUM, sum, SUMIF, AVG, avg, COUNTT.
TokenNames ==
    { <<"S", "U", "M">>, <<"s", "u", "m">>, <<"S", "U", "M", "I", "F">>,
      <<"A", "V", "G">>, <<"a", "v", "g">>, <<"C", "O", "U", "N", "T", "T">> }

CallTokens ==
    {CallToken(n, c) : n \in TokenNames, c \in BOOLEAN}
    \cup {CallRange(<<"A", "V", "G">>), CallRange(<<"S", "U", "M">>)}

AnalyzeTexts ==
    {FormulaText(eq, calls, ref) :
        eq \in BOOLEAN,
        calls \in UNION {[1..k -> CallTokens] : k \in 0..MaxCalls},
        ref \in {"A1", "A5", "B1"}}

AnalyzeInit ==
    /\ sheetData = <<>>
    /\ dependencies = BuildDependencies(sheetData)
    /\ calculationOrder = BuildOrder(sheetData)
    /\ lastOp = "constructor"
    /\ ops = 0
    /\ graphFresh = TRUE
    /\ recovery = FALSE
    /\ litEdit = ""
    /\ lastCall = NoCall
    /\ PassIdle
    /\ ServerIdle
    /\ call \in AnalyzeTexts
    /\ result = <<>>

\* analyzeFormula is called with the text.
Analyze ==
    /\ Len(result) = 0
    /\ result' = <<analyzeFormula(call)>>
    /\ UNCHANGED <<engineVars, lastOp, ops, graphFresh, recovery, litEdit,
                   lastCall, passVars, call, serverVars>>

SpecAnalyze == AnalyzeInit /\ [][Analyze]_vars

\* The number of places of a sequence that satisfy a test.
CountOf(seq, Test(_)) == Cardinality({i \in 1..Len(seq) : Test(seq[i])})

\* C19: analyzeFormula reports one reference error for each call of the
\* formula whose name, upper-cased, is not in the closed function list of
\* the specification, and none for a name that is in it.
C19_UnknownFunctions ==
    (Len(result) = 1 /\ call.eq) =>
        \A n \in {toUpperCase(m) : m \in TokenNames} :
            CountOf(result[1].errors,
                    LAMBDA e : e.type = "reference" /\ toUpperCase(e.func) = n)
              = IF n \in SpecFunctions THEN 0
                ELSE CountOf(call.calls, LAMBDA c : toUpperCase(c.name) = n)

Min3(x, y, z) ==
    IF x <= y /\ x <= z THEN x ELSE IF y <= z THEN y ELSE z

RECURSIVE DistanceRow(_, _, _, _, _)

\* The row of the edit-distance table for one more character ch of the
\* second name; place j + 1 of a row holds the distance to the first j
\* characters of s.
DistanceRow(prev, s, ch, j, acc) ==
    IF j > Len(s) THEN acc
    ELSE DistanceRow(prev, s, ch, j + 1,
             Append(acc, Min3(prev[j + 1] + 1, acc[j] + 1,
                              prev[j] + (IF s[j] = ch THEN 0 ELSE 1))))

RECURSIVE DistanceRows(_, _, _, _)

DistanceRows(prev, s, t, i) ==
    IF i > Len(t) THEN prev
    ELSE DistanceRows(DistanceRow(prev, s, t[i], 1, <<prev[1] + 1>>), s, t, i + 1)

\* The number of insertions, deletions and replacements of one character
\* that turn s into t.
EditDistance(s, t) ==
    DistanceRows([j \in 1..(Len(s) + 1) |-> j - 1], s, t, 1)[Len(s) + 1]

LetterIndex(ch) == CHOOSE i \in 1..26 : Alphabet[i] = ch

RECURSIVE Before(_, _, _)

\* s comes before t in alphabetical order, from place i on.
Before(s, t, i) ==
    IF i > Len(s) THEN i <= Len(t)
    ELSE IF i > Len(t) THEN FALSE
    ELSE IF s[i] # t[i] THEN LetterIndex(s[i]) < LetterIndex(t[i])
    ELSE Before(s, t, i + 1)

\* The name of the closed list nearest to a name: minimum edit distance,
\* ties broken alphabetically.
Nearest(name) ==
    LET d == [c \in SpecFunctions |-> EditDistance(toUpperCase(name), c)]
    IN  CHOOSE c \in SpecFunctions :
            \A o \in SpecFunctions \ {c} :
                d[c] < d[o] \/ (d[c] = d[o] /\ Before(c, o, 1))

\* C20: the suggestion of an unknown-function error is the name of the closed
\* list with the minimum edit distance to the unknown name, ties broken
\* alphabetically.
C20_NearestSuggestion ==
    Len(result) = 1 =>
        \A i \in 1..Len(result[1].errors) :
            LET e == result[1].errors[i]
            IN  e.type = "reference" => e.suggestion = Nearest(e.func)

\* C21: a formula that calls AVG, such as "=AVG(A1:A5)", is not valid and has
\* an unknown-function error for AVG whose suggestion is AVERAGE.
C21_AvgSuggestsAverage ==
    ( /\ Len(result) = 1
      /\ call.eq
      /\ \E i \in 1..Len(call.calls) : call.calls[i].name = <<"A", "V", "G">> )
    => /\ ~result[1].isValid
       /\ \E i \in 1..Len(result[1].errors) :
             result[1].errors[i]
               = FormulaError("reference", <<"A", "V", "G">>,
                              <<"A", "V", "E", "R", "A", "G", "E">>)

\* "=AVG(A1:A5)" has been analysed for the cell B1.
C21_Witness ==
    /\ Len(result) = 1
    /\ call = FormulaText(TRUE, <<CallRange(<<"A", "V", "G">>)>>, "B1")
    /\ ~result[1].isValid

\* The references written in a text that begins with "=": those of the
\* arguments of its calls.
WrittenReferences(t) ==
    IF t.eq THEN UNION {{c.args[j] : j \in 1..Len(c.args)} :
                           c \in {t.calls[i] : i \in 1..Len(t.calls)}}
    ELSE {}

\* C22: analyzeFormula reports a circular error exactly when the references
\* extracted from the formula contain the own address, and then only one;
\* what other cells hold is no input of the analysis.
C22_ShallowCircular ==
    Len(result) = 1 =>
        /\ {result[1].dependencies[i] : i \in 1..Len(result[1].dependencies)}
              = WrittenReferences(call)
        /\ CountOf(result[1].errors, LAMBDA e : e.type = "circular")
              = IF call.cellRef \in WrittenReferences(call) THEN 1 ELSE 0

\* "=SUM(A1:A5)" analysed for A5 reports a circular error, and "=SUM(A1)"
\* analysed for B1 would not.
C22_Witness ==
    /\ Len(result) = 1
    /\ call = FormulaText(TRUE, <<CallRange(<<"S", "U", "M">>)>>, "A5")
    /\ result[1].errors = <<FormulaError("circular", <<>>, <<>>)>>

\* C24: once the graph is rebuilt, every stored cell inside the range of a
\* scheduled formula, unless a cycle keeps it out of the order, comes before
\* the formula's cell in the calculation order.
C24_RangeDependency ==
    graphFresh =>
        \A c \in FormulaCells(sheetData) :
            LET f == FormulaOf(sheetData, c)
            IN  (f.op = "sum" /\ f.eq = 0 /\ InOrder(c)) =>
                    \A r \in (RangeCells(f.a, f.b) \cap Keys(sheetData)) \ {c} :
                        ~CycleAffected(sheetData, r)
                            => InOrder(r) /\ PlaceOf(r) < PlaceOf(c)

\* A cell without dependency edges: its formula, if any, names no cell, and
\* no formula of the store names it.
Isolated(sheet, a) ==
    /\ a \in Keys(sheet)
    /\ DependsOn(sheet, a) = {}
    /\ \A c \in Keys(sheet) : a \notin DependsOn(sheet, c)

MaxDeps == 2

DebugAddr == {"A1", "A2", "B1"}

\* The cells of a record in the order of their insertion.  The debugger
\* compares addresses and nothing else, so a record with its cells inserted
\* in another order is this one with the cells renamed.
DebugOrder == <<"A1", "A2", "B1">>

\* A formula text "=SUM(x,y)" whose arguments are the references in args, for
\* the cell it is stored at.
TextWith(args, cell) ==
    FormulaText(TRUE, <<[name |-> <<"S", "U", "M">>, closed |-> TRUE, args |-> args]>>, cell)

\* A text that is no formula: "5".
PlainText(cell) == FormulaText(FALSE, <<>>, cell)

\* The references a cell's text may hold: none for a text that is no
\* formula, or up to MaxDeps references.
DebugArgs == UNION {[1..n -> DebugAddr] : n \in 0..MaxDeps}

\* The text of a cell with these references.
DebugText(args, cell) ==
    IF Len(args) = 0 THEN PlainText(cell) ELSE TextWith(args, cell)

\* One entry of the record of cells.
DebugCell(c, f) == [cell |-> c, formula |-> f]

\* A node of the graph.
FormulaDependency(c, f, deps, dpts) ==
    [cell |-> c, formula |-> f, dependencies |-> deps, dependents |-> dpts]

\* The node of a cell in the graph, if it has one: graph.get(cell).
HasNode(graph, c) == \E i \in 1..Len(graph) : graph[i].cell = c

NodeOf(graph, c) == graph[CHOOSE i \in 1..Len(graph) : graph[i].cell = c]

RECURSIVE DependentsFrom(_, _, _, _)

\* Second pass, for one cell c: the cells of the nodes that name c, in the
\* order of the nodes, once for every time c is named.
DependentsFrom(first, c, i, j) ==
    IF i > Len(first) THEN <<>>
    ELSE IF j > Len(first[i].dependencies) THEN DependentsFrom(first, c, i + 1, 1)
    ELSE (IF first[i].dependencies[j] = c THEN <<first[i].cell>> ELSE <<>>)
         \o DependentsFrom(first, c, i, j + 1)

\* buildDependencyGraph(cells): the name is taken by the engine's step, so
\* this is the debugger's function of that name.
debugBuildDependencyGraph(cells) ==
    LET first == <<>> \o [i \in 1..Len(cells) |->
                    FormulaDependency(cells[i].cell, cells[i].formula,
                        analyzeFormula(cells[i].formula).dependencies, <<>>)]
    IN  <<>> \o [i \in 1..Len(cells) |->
            [first[i] EXCEPT !.dependents = DependentsFrom(first, first[i].cell, 1, 1)]]

\* path.indexOf(dep): zero-based, -1 when absent
indexOf(path, x) ==
    IF \E i \in 1..Len(path) : path[i] = x
    THEN (CHOOSE i \in 1..Len(path) :
              path[i] = x /\ \A j \in 1..(i - 1) : path[j] # x) - 1
    ELSE -1

\* path.slice(start): a negative start counts from the end
slice(path, start) ==
    LET from == IF start >= 0 THEN start
                ELSE IF Len(path) + start > 0 THEN Len(path) + start ELSE 0
    IN  SubSeq(path, from + 1, Len(path))

\* The recursion stack is left as it is when a cell is done.
StackKept(stack, cell) == stack

\* recursionStack.delete(cell)
StackDelete(stack, cell) == stack \ {cell}

DfsInit == [visited |-> {}, stack |-> {}, cycles |-> <<>>]

RECURSIVE dfs(_, _, _, _)
RECURSIVE DfsDeps(_, _, _, _, _)

\* The loop over node.dependencies in dfs(cell, path), from the i-th on.
DfsDeps(graph, cell, path, i, st) ==
    LET deps == NodeOf(graph, cell).dependencies
    IN  IF i > Len(deps) THEN st
        ELSE LET dep == deps[i]
             IN  IF dep \notin st.visited
                 THEN DfsDeps(graph, cell, path, i + 1, dfs(graph, dep, path, st))
                 ELSE IF dep \in st.stack
                 THEN DfsDeps(graph, cell, path, i + 1,
                          [st EXCEPT !.cycles =
                               Append(@, slice(path, indexOf(path, dep)))])
                 ELSE DfsDeps(graph, cell, path, i + 1, st)

\* dfs(cell, path): the callee gets a copy of the path.
dfs(graph, cell, path, st) ==
    LET st1 == [st EXCEPT !.visited = @ \cup {cell}, !.stack = @ \cup {cell}]
        path1 == Append(path, cell)
        st2 == IF HasNode(graph, cell) THEN DfsDeps(graph, cell, path1, 1, st1) ELSE st1
    IN  [st2 EXCEPT !.stack = StackDelete(@, cell)]

RECURSIVE DfsAll(_, _, _)

\* graph.forEach: dfs from every cell not yet visited.
DfsAll(graph, i, st) ==
    IF i > Len(graph) THEN st
    ELSE IF graph[i].cell \in st.visited THEN DfsAll(graph, i + 1, st)
    ELSE DfsAll(graph, i + 1, dfs(graph, graph[i].cell, <<>>, st))

detectCircularReferences(graph) == DfsAll(graph, 1, DfsInit).cycles

\* The records of cells: the first cells of DebugOrder, each with one of its
\* texts, which may name any cell of DebugAddr.
CyclesInit ==
    /\ sheetData = <<>>
    /\ dependencies = BuildDependencies(sheetData)
    /\ calculationOrder = BuildOrder(sheetData)
    /\ lastOp = "constructor"
    /\ ops = 0
    /\ graphFresh = TRUE
    /\ recovery = FALSE
    /\ litEdit = ""
    /\ lastCall = NoCall
    /\ PassIdle
    /\ ServerIdle
    /\ \E k \in 0..Len(DebugOrder) :
          \E a \in [1..k -> DebugArgs] :
             call = [i \in 1..k |-> DebugCell(DebugOrder[i], DebugText(a[i], DebugOrder[i]))]
    /\ result = <<>>

\* detectCircularReferences(buildDependencyGraph(cells)) is called.
Detect ==
    /\ Len(result) = 0
    /\ result' = <<detectCircularReferences(debugBuildDependencyGraph(call))>>
    /\ UNCHANGED <<engineVars, lastOp, ops, graphFresh, recovery, litEdit,
                   lastCall, passVars, call, serverVars>>

SpecCycles == CyclesInit /\ [][Detect]_vars

\* The cells of the record that the formula of a cell of the record names.
CellDeps(cells, c) ==
    LET e == cells[CHOOSE i \in 1..Len(cells) : cells[i].cell = c]
    IN  WrittenReferences(e.formula) \cap {cells[i].cell : i \in 1..Len(cells)}

RECURSIVE CellClosure(_, _)

CellClosure(cells, S) ==
    LET T == S \cup UNION {CellDeps(cells, x) : x \in S}
    IN  IF T = S THEN S ELSE CellClosure(cells, T)

\* The dependency graph of the record has a directed cycle.
HasCycle(cells) ==
    \E c \in {cells[i].cell : i \in 1..Len(cells)} :
        c \in CellClosure(cells, CellDeps(cells, c))

\* A list is a cycle: each cell names the next one, the last names the first.
RealCycle(cells, l) ==
    /\ Len(l) > 0
    /\ \A i \in 1..Len(l) :
          /\ l[i] \in {cells[j].cell : j \in 1..Len(cells)}
          /\ l[IF i = Len(l) THEN 1 ELSE i + 1] \in CellDeps(cells, l[i])

\* C26: detectCircularReferences(buildDependencyGraph(cells)) returns a list
\* exactly when the dependency graph of cells has a directed cycle, and
\* every list it returns is a cycle of that graph.
C26_CycleDetection ==
    Len(result) = 1 =>
        /\ (Len(result[1]) > 0) <=> HasCycle(call)
        /\ \A i \in 1..Len(result[1]) : RealCycle(call, result[1][i])

\* A1 = "=SUM(A2)", A2 = "=SUM(B1)", B1 = "=SUM(A1)": the cycle through the
\* three cells is returned.
C26_Witness ==
    /\ Len(result) = 1
    /\ call = <<DebugCell("A1", TextWith(<<"A2">>, "A1")),
                DebugCell("A2", TextWith(<<"B1">>, "A2")),
                DebugCell("B1", TextWith(<<"A1">>, "B1"))>>
    /\ result[1] = <<(<<"A1", "A2", "B1">>)>>

(***************************************************************************)
(* getAllCells() returns { ...this.sheetData }: a new object with the same *)
(* cell records.  call holds the addresses whose record is still the one   *)
(* the engine holds, result holds the snapshot as the caller sees it.  A   *)
(* write of the engine puts a new record at its address, a pass assigns to *)
(* the value of the records in place.                                      *)
(***************************************************************************)
SnapAddr == {"A1", "A2"}

SnapFormulas == {FNum(5), FRef("A1")}

\* A snapshot has been returned.
SnapTaken == Len(result) = 1

\* The snapshot as the caller sees it: a record shared with the engine shows
\* what the engine's record holds, another record is as it was.
Sync(snap, shared, sheet) ==
    [i \in 1..Len(snap) |->
        IF snap[i].addr \in shared
        THEN Entry(snap[i].addr, getCellValue(sheet, snap[i].addr),
                   getCellFormula(sheet, snap[i].addr))
        ELSE snap[i]]

\* What becomes of the snapshot when the engine's store becomes sheet and the
\* record at address a, if any, is no longer the engine's.
SnapAfter(a, sheet) ==
    IF SnapTaken
    THEN /\ call' = <<call[1] \ {a}>>
         /\ result' = <<Sync(result[1], call[1] \ {a}, sheet)>>
    ELSE UNCHANGED fnVars

\* getAllCells()
getAllCells ==
    /\ ~SnapTaken
    /\ call' = <<Keys(sheetData)>>
    /\ result' = <<sheetData>>
    /\ lastOp' = "getAllCells"
    /\ UNCHANGED <<engineVars, ops, graphFresh, recovery, litEdit, lastCall, passVars,
                 serverVars>>

\* setCellValue(a, v) with the snapshot around.
SnapSetCellValue(a, v) ==
    /\ ops < MaxOps
    /\ sheetData' = Put(sheetData, Entry(a, v, NoFormula))
    /\ SnapAfter(a, sheetData')
    /\ lastCall' = Call(a, NoFormula)
    /\ lastOp' = "setCellValue"
    /\ ops' = ops + 1
    /\ graphFresh' = FALSE
    /\ UNCHANGED <<dependencies, calculationOrder, recovery, litEdit, passVars,
                 serverVars>>

\* setCellFormula(a, f) with the snapshot around.
SnapSetCellFormula(a, f) ==
    LET s1 == Put(sheetData, Entry(a, NullV, cleanFormula(f)))
    IN  /\ ops < MaxOps
        /\ dependencies' = BuildDependencies(s1)
        /\ calculationOrder' = BuildOrder(s1)
        /\ sheetData' = Recalc(s1, calculationOrder')
        /\ SnapAfter(a, sheetData')
        /\ lastCall' = Call(a, f)
        /\ lastOp' = "setCellFormula"
        /\ ops' = ops + 1
        /\ graphFresh' = TRUE
        /\ UNCHANGED <<recovery, litEdit, passVars, serverVars>>

\* clearCell(a) with the snapshot around.
SnapClearCell(a) ==
    LET s1 == Delete(sheetData, a)
    IN  /\ ops < MaxOps
        /\ dependencies' = BuildDependencies(s1)
        /\ calculationOrder' = BuildOrder(s1)
        /\ sheetData' = Recalc(s1, calculationOrder')
        /\ SnapAfter(a, sheetData')
        /\ lastCall' = Call(a, NoFormula)
        /\ lastOp' = "clearCell"
        /\ ops' = ops + 1
        /\ graphFresh' = TRUE
        /\ UNCHANGED <<recovery, litEdit, passVars, serverVars>>

\* recalculate() with the snapshot around: no record is replaced.
SnapRecalculate ==
    /\ ops < MaxOps
    /\ sheetData' = Recalc(sheetData, calculationOrder)
    /\ SnapAfter("", sheetData')
    /\ lastOp' = "recalculate"
    /\ ops' = ops + 1
    /\ UNCHANGED <<dependencies, calculationOrder, graphFresh, recovery, litEdit,
                   lastCall, passVars, serverVars>>

\* The caller assigns snapshot[a].value = v.
CallerWrite(a, v) ==
    /\ SnapTaken
    /\ ops < MaxOps
    /\ a \in Keys(result[1])
    /\ IF a \in call[1]
       THEN /\ sheetData' = Put(sheetData, Entry(a, v, getCellFormula(sheetData, a)))
            /\ result' = <<Sync(result[1], call[1], sheetData')>>
       ELSE /\ sheetData' = sheetData
            /\ result' = <<Put(result[1], Entry(a, v, getCellFormula(result[1], a)))>>
    /\ lastOp' = "callerWrite"
    /\ ops' = ops + 1
    /\ UNCHANGED <<dependencies, calculationOrder, graphFresh, recovery, litEdit,
                   lastCall, passVars, call, serverVars>>

SnapNext ==
    \/ getAllCells
    \/ \E a \in SnapAddr : SnapSetCellValue(a, Num(10))
    \/ \E a \in SnapAddr, f \in SnapFormulas : SnapSetCellFormula(a, f)
    \/ \E a \in SnapAddr : SnapClearCell(a)
    \/ SnapRecalculate
    \/ \E a \in SnapAddr : CallerWrite(a, Num(7))

SpecSnap == Init /\ [][SnapNext]_vars

\* C27: an operation of the engine leaves the records of a snapshot already
\* returned as they are, and an assignment of the caller to a record of the
\* snapshot leaves the store of the engine as it is.
C27_SnapshotIndependent ==
    [][ /\ (SnapTaken /\ lastOp' \in WriteOps \cup {"recalculate"})
              => result' = result
        /\ lastOp' = "callerWrite" => sheetData' = sheetData ]_vars

(***************************************************************************)
(* Ninth specification: the collaboration server.  Sockets connect, emit    *)
(* join-spreadsheet, cursor-move and cell-edit events, and disconnect; each *)
(* handler runs to its end before the next event is taken.                  *)
(***************************************************************************)
Sockets == {"s1", "s2"}

SheetIds == {1, 2}

UserIds == {1, 2}

\* Two of the colours generateUserColor() draws from.
Colors == {"#3B82F6", "#EF4444"}

Positions == {[row |-> 0, col |-> 0], [row |-> 0, col |-> 1]}

\* cursorPosition of a user that has not moved its cursor.
NoPosition == [row |-> -1, col |-> -1]

\* Every variable of the engine and of the pure functions.
clientVars == <<engineVars, lastOp, ops, graphFresh, recovery, litEdit,
                lastCall, passVars, fnVars>>

\* An engine on an empty store next to a server with nothing stored.
ServerInit ==
    /\ sheetData = <<>>
    /\ dependencies = BuildDependencies(sheetData)
    /\ calculationOrder = BuildOrder(sheetData)
    /\ lastOp = "constructor"
    /\ ops = 0
    /\ graphFresh = TRUE
    /\ recovery = FALSE
    /\ litEdit = ""
    /\ lastCall = NoCall
    /\ PassIdle
    /\ FnIdle
    /\ ServerIdle

\* Map.has(k)
MapHas(m, k) == k \in DOMAIN m

\* Map.set(k, v)
MapSet(m, k, v) == [x \in DOMAIN m \cup {k} |-> IF x = k THEN v ELSE m[x]]

\* Map.delete(k)
MapDelete(m, k) ==
    IF DOMAIN m \ {k} = {} THEN <<>> ELSE [x \in DOMAIN m \ {k} |-> m[x]]

\* `spreadsheet-${spreadsheetId}`
roomName(spreadsheetId) == <<"spreadsheet-", spreadsheetId>>

\* room.startsWith('spreadsheet-'); the room of a socket's own id is a string.
IsSpreadsheetRoom(room) == room \in {roomName(s) : s \in SheetIds}

\* The record join-spreadsheet stores for a socket.
CollaborationUser(userId, spreadsheetId, color) ==
    [userId |-> userId, userName |-> <<"user", userId>>,
     spreadsheetId |-> spreadsheetId, color |-> color,
     cursorPosition |-> NoPosition]

\* A socket is open from its connection to its disconnection; socket.io puts
\* it in the room of its own id and empties socket.rooms when it closes.
Open(socket) == MapHas(socketRooms, socket) /\ socketRooms[socket] # {}

\* io.on('connection'): a socket with a fresh id.
Connect(socket) ==
    /\ ~MapHas(socketRooms, socket)
    /\ socketRooms' = MapSet(socketRooms, socket, {socket})
    /\ UNCHANGED <<activeUsers, spreadsheetRooms, routerVars, clientVars>>

\* socket.on('join-spreadsheet')
JoinSpreadsheet(socket, spreadsheetId, userId, color) ==
    LET left == {room \in socketRooms[socket] :
                     ~(room # socket /\ IsSpreadsheetRoom(room))}
        rooms == IF MapHas(spreadsheetRooms, spreadsheetId)
                 THEN spreadsheetRooms
                 ELSE MapSet(spreadsheetRooms, spreadsheetId, {})
    IN  /\ Open(socket)
        /\ socketRooms' =
               MapSet(socketRooms, socket, left \cup {roomName(spreadsheetId)})
        /\ activeUsers' =
               MapSet(activeUsers, socket,
                      CollaborationUser(userId, spreadsheetId, color))
        /\ spreadsheetRooms' =
               MapSet(rooms, spreadsheetId, rooms[spreadsheetId] \cup {socket})
        /\ UNCHANGED <<routerVars, clientVars>>

\* socket.on('cursor-move')
CursorMove(socket, data) ==
    /\ Open(socket)
    /\ IF ~MapHas(activeUsers, socket)
       THEN activeUsers' = activeUsers
       ELSE activeUsers' = [activeUsers EXCEPT ![socket].cursorPosition = data]
    /\ UNCHANGED <<spreadsheetRooms, socketRooms, routerVars, clientVars>>

\* socket.on('cell-edit'): the edit is broadcast and nothing is stored.
CellEdit(socket) ==
    /\ Open(socket)
    /\ UNCHANGED <<collabVars, routerVars, clientVars>>

\* socket.on('disconnect')
Disconnect(socket) ==
    /\ Open(socket)
    /\ socketRooms' = MapSet(socketRooms, socket, {})
    /\ IF MapHas(activeUsers, socket)
       THEN LET user == activeUsers[socket]
            IN  /\ activeUsers' = MapDelete(activeUsers, socket)
                /\ spreadsheetRooms' =
                       IF MapHas(spreadsheetRooms, user.spreadsheetId)
                       THEN [spreadsheetRooms EXCEPT
                                ![user.spreadsheetId] = @ \ {socket}]
                       ELSE spreadsheetRooms
       ELSE UNCHANGED <<activeUsers, spreadsheetRooms>>
    /\ UNCHANGED <<routerVars, clientVars>>

CollabNext ==
    \/ \E socket \in Sockets : Connect(socket)
    \/ \E socket \in Sockets, spreadsheetId \in SheetIds, userId \in UserIds,
          color \in Colors : JoinSpreadsheet(socket, spreadsheetId, userId, color)
    \/ \E socket \in Sockets, data \in Positions : CursorMove(socket, data)
    \/ \E socket \in Sockets : CellEdit(socket)
    \/ \E socket \in Sockets : Disconnect(socket)

SpecCollab == ServerInit /\ [][CollabNext]_vars

\* C28: every socket id recorded in spreadsheetRooms[s] has an activeUsers
\* entry whose spreadsheetId is s, so a socket is tracked in at most one
\* spreadsheet room and in none once it has disconnected.
C28_RoomsMatchUsers ==
    \A s \in DOMAIN spreadsheetRooms :
        \A id \in spreadsheetRooms[s] :
            /\ MapHas(activeUsers, id)
            /\ activeUsers[id].spreadsheetId = s

(***************************************************************************)
(* Tenth specification: the spreadsheet, chat and checkpoint procedures of  *)
(* the router over the tables of the database.  A table is the sequence of  *)
(* its rows in insertion order; a file stands for a fileKey and its         *)
(* fileUrl.  A rejected call throws before its first write and an owner     *)
(* never changes, so each call is taken as one step.                        *)
(***************************************************************************)
MaxRows == 2

MaxSends == 1

\* The ids a caller can name: the ids a table hands out.  An id not handed
\* out yet is found no more than the id of a deleted row.
RowIds == 1..MaxRows

\* The file an upload stores.
Uploaded == 0

\* db.insert(table).values(data): the row gets the next id of its table.
Insert(d, table, data) ==
    LET id == d.insertId[table] + 1
    IN  [d EXCEPT ![table] = Append(@, [data EXCEPT !.id = id]),
                  !.insertId[table] = id]

\* db.select().from(table).where(eq(table.id, id))
SelectById(rows, id) == SelectSeq(rows, LAMBDA r : r.id = id)

\* db.delete(table).where(eq(table.id, id))
DeleteById(d, table, id) ==
    [d EXCEPT ![table] = SelectSeq(@, LAMBDA r : r.id # id)]

\* result[0] of a select that found a row.
Found(rows) == Len(rows) > 0

getSpreadsheetById(id) == SelectById(db.spreadsheets, id)

getCheckpointById(id) == SelectById(db.checkpoints, id)

getSpreadsheetMessages(spreadsheetId) ==
    SelectSeq(db.chatMessages, LAMBDA r : r.spreadsheetId = spreadsheetId)

\* orderBy(desc(createdAt)) is not modelled: the rows come in insertion order.
getSpreadsheetCheckpoints(spreadsheetId) ==
    SelectSeq(db.checkpoints, LAMBDA r : r.spreadsheetId = spreadsheetId)

\* db.update(spreadsheets).set({fileKey, fileUrl}).where(eq(spreadsheets.id, id))
updateSpreadsheet(d, id, file) ==
    [d EXCEPT !.spreadsheets =
        <<>> \o [i \in 1..Len(@) |->
                    IF @[i].id = id THEN [@[i] EXCEPT !.file = file] ELSE @[i]]]

createChatMessage(d, spreadsheetId, userId, role) ==
    Insert(d, "chatMessages",
           [id |-> 0, spreadsheetId |-> spreadsheetId, userId |-> userId,
            role |-> role])

createCheckpoint(d, spreadsheetId, userId, file, applied) ==
    Insert(d, "checkpoints",
           [id |-> 0, spreadsheetId |-> spreadsheetId, userId |-> userId,
            file |-> file, applied |-> applied])

\* An ownership test that lets every caller through.
IsOwnerOrAnyone(spreadsheet, user) == TRUE

\* spreadsheet.userId === ctx.user.id
IsOwner(spreadsheet, user) == spreadsheet.userId = user

\* What a call leaves for its caller: the value it returns or the error it
\* throws.
Response(proc, user, input, code, data) ==
    [proc |-> proc, user |-> user, input |-> input, code |-> code,
     data |-> data]

Throw(proc, user, input, code) ==
    /\ response' = Response(proc, user, input, code, <<>>)
    /\ db' = db

Success == <<[success |-> TRUE]>>

\* spreadsheet.create
SpreadsheetCreate(user) ==
    /\ db.insertId.spreadsheets < MaxRows
    /\ db' = Insert(db, "spreadsheets",
                    [id |-> 0, userId |-> user, file |-> Uploaded])
    /\ response' = Response("spreadsheet.create", user, 0, "OK",
                            <<[id |-> db'.insertId.spreadsheets]>>)
    /\ UNCHANGED <<collabVars, clientVars>>

\* spreadsheet.get
SpreadsheetGet(user, id) ==
    LET found == getSpreadsheetById(id)
    IN  /\ IF ~Found(found)
           THEN Throw("spreadsheet.get", user, id, "NOT_FOUND")
           ELSE IF ~IsOwner(found[1], user)
           THEN Throw("spreadsheet.get", user, id, "FORBIDDEN")
           ELSE /\ response' = Response("spreadsheet.get", user, id, "OK", found)
                /\ db' = db
        /\ UNCHANGED <<collabVars, clientVars>>

\* spreadsheet.delete
SpreadsheetDelete(user, id) ==
    LET found == getSpreadsheetById(id)
    IN  /\ IF ~Found(found)
           THEN Throw("spreadsheet.delete", user, id, "NOT_FOUND")
           ELSE IF ~IsOwner(found[1], user)
           THEN Throw("spreadsheet.delete", user, id, "FORBIDDEN")
           ELSE /\ db' = DeleteById(db, "spreadsheets", id)
                /\ response' =
                       Response("spreadsheet.delete", user, id, "OK", Success)
        /\ UNCHANGED <<collabVars, clientVars>>

\* spreadsheet.getDownloadUrl
SpreadsheetGetDownloadUrl(user, id) ==
    LET found == getSpreadsheetById(id)
    IN  /\ IF ~Found(found)
           THEN Throw("spreadsheet.getDownloadUrl", user, id, "NOT_FOUND")
           ELSE IF ~IsOwner(found[1], user)
           THEN Throw("spreadsheet.getDownloadUrl", user, id, "FORBIDDEN")
           ELSE /\ response' = Response("spreadsheet.getDownloadUrl", user, id,
                                        "OK", <<[url |-> found[1].file]>>)
                /\ db' = db
        /\ UNCHANGED <<collabVars, clientVars>>

\* chat.getMessages
ChatGetMessages(user, spreadsheetId) ==
    LET found == getSpreadsheetById(spreadsheetId)
    IN  /\ IF ~Found(found) \/ ~IsOwner(found[1], user)
           THEN Throw("chat.getMessages", user, spreadsheetId, "FORBIDDEN")
           ELSE /\ response' = Response("chat.getMessages", user, spreadsheetId,
                                        "OK", getSpreadsheetMessages(spreadsheetId))
                /\ db' = db
        /\ UNCHANGED <<collabVars, clientVars>>

\* The outcomes of the assistant: no action, actions that are applied, and
\* actions whose application throws.
Outcomes == {"none", "applied", "failed"}

\* chat.sendMessage.  The file createExcelFile stores is a new one, named by
\* the checkpoint that records it.
ChatSendMessage(user, spreadsheetId, outcome) ==
    LET found == getSpreadsheetById(spreadsheetId)
        d1 == createChatMessage(db, spreadsheetId, user, "user")
        d2 == createChatMessage(d1, spreadsheetId, user, "assistant")
        file == d2.insertId.checkpoints + 1
    IN  /\ db.insertId.chatMessages < 2 * MaxSends
        /\ IF ~Found(found) \/ ~IsOwner(found[1], user)
           THEN Throw("chat.sendMessage", user, spreadsheetId, "FORBIDDEN")
           ELSE /\ db' =
                     CASE outcome = "none" -> d2
                       [] outcome = "applied" ->
                            createCheckpoint(
                                updateSpreadsheet(d2, spreadsheetId, file),
                                spreadsheetId, user, file, TRUE)
                       [] outcome = "failed" ->
                            createCheckpoint(d2, spreadsheetId, user,
                                             found[1].file, FALSE)
                /\ response' = Response("chat.sendMessage", user, spreadsheetId,
                                        "OK", <<[aiResponse |-> outcome]>>)
        /\ UNCHANGED <<collabVars, clientVars>>

\* checkpoint.list
CheckpointList(user, spreadsheetId) ==
    LET found == getSpreadsheetById(spreadsheetId)
    IN  /\ IF ~Found(found) \/ ~IsOwner(found[1], user)
           THEN Throw("checkpoint.list", user, spreadsheetId, "FORBIDDEN")
           ELSE /\ response' =
                       Response("checkpoint.list", user, spreadsheetId, "OK",
                                getSpreadsheetCheckpoints(spreadsheetId))
                /\ db' = db
        /\ UNCHANGED <<collabVars, clientVars>>

\* checkpoint.restore
CheckpointRestore(user, checkpointId) ==
    LET checkpoint == getCheckpointById(checkpointId)
        found == IF Found(checkpoint)
                 THEN getSpreadsheetById(checkpoint[1].spreadsheetId)
                 ELSE <<>>
    IN  /\ IF ~Found(checkpoint)
           THEN Throw("checkpoint.restore", user, checkpointId, "NOT_FOUND")
           ELSE IF ~Found(found) \/ ~IsOwner(found[1], user)
           THEN Throw("checkpoint.restore", user, checkpointId, "FORBIDDEN")
           ELSE /\ db' = updateSpreadsheet(db, checkpoint[1].spreadsheetId,
                                           checkpoint[1].file)
                /\ response' = Response("checkpoint.restore", user,
                                        checkpointId, "OK", Success)
        /\ UNCHANGED <<collabVars, clientVars>>

RouterNext ==
    \/ \E user \in UserIds : SpreadsheetCreate(user)
    \/ \E user \in UserIds, id \in RowIds : SpreadsheetGet(user, id)
    \/ \E user \in UserIds, id \in RowIds : SpreadsheetDelete(user, id)
    \/ \E user \in UserIds, id \in RowIds : SpreadsheetGetDownloadUrl(user, id)
    \/ \E user \in UserIds, id \in RowIds : ChatGetMessages(user, id)
    \/ \E user \in UserIds, id \in RowIds, outcome \in Outcomes :
          ChatSendMessage(user, id, outcome)
    \/ \E user \in UserIds, id \in RowIds : CheckpointList(user, id)
    \/ \E user \in UserIds, id \in RowIds : CheckpointRestore(user, id)

SpecRouter == ServerInit /\ [][RouterNext]_vars

\* The procedures that name a spreadsheet, and the one that names a
\* checkpoint of a spreadsheet.
BySpreadsheet ==
    {"spreadsheet.get", "spreadsheet.delete", "spreadsheet.getDownloadUrl",
     "chat.getMessages", "chat.sendMessage", "checkpoint.list"}

\* The rows of the spreadsheet a call targets, in a database d.
Targeted(d, r) ==
    IF r.proc \in BySpreadsheet THEN SelectById(d.spreadsheets, r.input)
    ELSE IF r.proc = "checkpoint.restore"
    THEN LET c == SelectById(d.checkpoints, r.input)
         IN  IF Found(c) THEN SelectById(d.spreadsheets, c[1].spreadsheetId)
             ELSE <<>>
    ELSE <<>>

\* The call r is made by a user who does not own the spreadsheet it targets.
ByStranger(d, r) ==
    /\ Found(Targeted(d, r))
    /\ Targeted(d, r)[1].userId # r.user

\* C23: a call of one of the seven procedures by a user who is not the owner
\* of the targeted spreadsheet ends with an error, returns no data and
\* leaves every table as it is.
C23_OwnerOnly ==
    [][ ByStranger(db, response') =>
            /\ response'.code \in {"FORBIDDEN", "NOT_FOUND"}
            /\ response'.data = <<>>
            /\ db' = db ]_vars

\* A user who is not the owner has been refused a spreadsheet that holds
\* messages and a checkpoint.
C23_Witness ==
    /\ ByStranger(db, response)
    /\ response.proc = "checkpoint.restore"
    /\ response.code = "FORBIDDEN"
    /\ Len(db.chatMessages) = 2
    /\ \E i \in 1..Len(db.spreadsheets) : db.spreadsheets[i].file # Uploaded

(***************************************************************************)
(* Eleventh specification: the macro and comment procedures of the router.  *)
(***************************************************************************)
\* A macro definition: its name and the number of its actions, each with a
\* type and data.
MacroInputs == {[name |-> n, actions |-> k] : n \in {"", "m"}, k \in {0, 1}}

Contents == {"first", "second"}

\* validateMacro(macroDef).valid
validateMacro(macro) == macro.name # "" /\ macro.actions > 0

getMacroById(id) == SelectById(db.macros, id)

\* db.update(comments).set({ [field]: value }).where(eq(comments.id, id))
setComment(d, id, field, value) ==
    [d EXCEPT !.comments =
        <<>> \o [i \in 1..Len(@) |->
                    IF @[i].id = id THEN [@[i] EXCEPT ![field] = value]
                    ELSE @[i]]]

updateComment(d, id, content) == setComment(d, id, "content", content)

resolveComment(d, id, resolved) ==
    setComment(d, id, "resolved", IF resolved THEN 1 ELSE 0)

\* macro.create
MacroCreate(user, input) ==
    /\ db.insertId.macros < MaxRows
    /\ IF ~validateMacro(input)
       THEN Throw("macro.create", user, 0, "BAD_REQUEST")
       ELSE /\ db' = Insert(db, "macros",
                            [id |-> 0, userId |-> user, name |-> input.name,
                             actions |-> input.actions])
            /\ response' = Response("macro.create", user, 0, "OK",
                                    <<[id |-> db'.insertId.macros]>>)
    /\ UNCHANGED <<collabVars, clientVars>>

\* macro.get
MacroGet(user, id) ==
    /\ response' = Response("macro.get", user, id, "OK", getMacroById(id))
    /\ db' = db
    /\ UNCHANGED <<collabVars, clientVars>>

\* macro.execute: executeMacro returns the log of the actions it walked.
MacroExecute(user, macroId) ==
    LET macro == getMacroById(macroId)
    IN  /\ IF ~Found(macro)
           THEN Throw("macro.execute", user, macroId, "NOT_FOUND")
           ELSE /\ response' =
                       Response("macro.execute", user, macroId, "OK",
                                <<[success |-> TRUE, log |-> macro[1].actions]>>)
                /\ db' = db
        /\ UNCHANGED <<collabVars, clientVars>>

\* macro.delete
MacroDelete(user, id) ==
    /\ db' = DeleteById(db, "macros", id)
    /\ response' = Response("macro.delete", user, id, "OK", Success)
    /\ UNCHANGED <<collabVars, clientVars>>

\* comment.create
CommentCreate(user, spreadsheetId, content) ==
    /\ db.insertId.comments < MaxRows
    /\ db' = Insert(db, "comments",
                    [id |-> 0, spreadsheetId |-> spreadsheetId,
                     userId |-> user, content |-> content, resolved |-> 0])
    /\ response' = Response("comment.create", user, spreadsheetId, "OK",
                            <<[id |-> db'.insertId.comments]>>)
    /\ UNCHANGED <<collabVars, clientVars>>

\* comment.update
CommentUpdate(user, id, content) ==
    /\ db' = updateComment(db, id, content)
    /\ response' = Response("comment.update", user, id, "OK", Success)
    /\ UNCHANGED <<collabVars, clientVars>>

\* comment.resolve
CommentResolve(user, id, resolved) ==
    /\ db' = resolveComment(db, id, resolved)
    /\ response' = Response("comment.resolve", user, id, "OK", Success)
    /\ UNCHANGED <<collabVars, clientVars>>

\* comment.delete
CommentDelete(user, id) ==
    /\ db' = DeleteById(db, "comments", id)
    /\ response' = Response("comment.delete", user, id, "OK", Success)
    /\ UNCHANGED <<collabVars, clientVars>>

RecordsNext ==
    \/ \E user \in UserIds, input \in MacroInputs : MacroCreate(user, input)
    \/ \E user \in UserIds, id \in RowIds : MacroGet(user, id)
    \/ \E user \in UserIds, id \in RowIds : MacroExecute(user, id)
    \/ \E user \in UserIds, id \in RowIds : MacroDelete(user, id)
    \/ \E user \in UserIds, spreadsheetId \in SheetIds :
          CommentCreate(user, spreadsheetId, "first")
    \/ \E user \in UserIds, id \in RowIds, content \in Contents :
          CommentUpdate(user, id, content)
    \/ \E user \in UserIds, id \in RowIds, resolved \in BOOLEAN :
          CommentResolve(user, id, resolved)
    \/ \E user \in UserIds, id \in RowIds : CommentDelete(user, id)

SpecRecords == ServerInit /\ [][RecordsNext]_vars

\* The rows of the macro or the comment a call names, in a database d.
Named(d, r) ==
    IF r.proc \in {"macro.get", "macro.execute", "macro.delete"}
    THEN SelectById(d.macros, r.input)
    ELSE IF r.proc \in {"comment.update", "comment.resolve", "comment.delete"}
    THEN SelectById(d.comments, r.input)
    ELSE <<>>

\* C29: a call of macro.get, macro.execute, macro.delete, comment.update,
\* comment.resolve or comment.delete that names a record created by another
\* user fails, returns no data and changes nothing.
C29_RecordsOwnerOnly ==
    [][ (Found(Named(db, response')) /\ Named(db, response')[1].userId # response'.user)
            => /\ response'.code # "OK"
               /\ response'.data = <<>>
               /\ db' = db ]_vars

(***************************************************************************)
(* Twelfth specification: the grid builds the address of a position and the *)
(* engine parses it, as updateDataFromEngine does with every address of     *)
(* the store.                                                               *)
(***************************************************************************)
MaxGridCol == 27

\* String.fromCharCode(code): one UTF-16 code unit.
fromCharCode(code) == <<code % 65536>>

\* getCellAddress(row, col): `${String.fromCharCode(65 + col)}${row + 1}`
getCellAddress(row, col) == fromCharCode(65 + col) \o DecimalText(row + 1)

\* The grid builds the address of a position.
CallGetCellAddress(row, col) ==
    /\ Len(call) = 0
    /\ call' = <<row, col>>
    /\ result' = <<getCellAddress(row, col)>>
    /\ UNCHANGED <<engineVars, lastOp, ops, graphFresh, recovery, litEdit,
                   lastCall, passVars, serverVars>>

GridNext ==
    \/ \E row \in 0..MaxRow, col \in 0..MaxGridCol : CallGetCellAddress(row, col)
    \/ CallParseCellAddress

SpecGrid == AddrInit /\ [][GridNext]_vars

\* C30: parseCellAddress applied to the address getCellAddress(row, col)
\* builds returns {row, col}, for the columns from 26 on too.
C30_GridAgrees ==
    Len(result) = 2 =>
        result[2] = [ok |-> TRUE, col |-> call[2], row |-> call[1]]

====
